---------------------------- MODULE Spec2Model ----------------------------
(***************************************************************************)
(* Model of netlify/functions/chat.js: the HTTP handler of the emocare     *)
(* chat function.  One invocation parses the request body, extracts the    *)
(* text, classifies its emotion by keyword and composes a templated reply. *)
(*                                                                         *)
(* A JavaScript string is the sequence of its UTF-16 code units, numbers   *)
(* in 0 .. 65535.  JavaScript values (the result of JSON.parse, property   *)
(* reads, undefined) are tagged records [t |-> tag, v |-> payload] so that *)
(* values of different JavaScript types stay comparable.  The strings of   *)
(* the model itself name tags, outcomes and positions only.                *)
(***************************************************************************)
EXTENDS Integers, Sequences, FiniteSets, TLC

VARIABLES
    event,      \* the event of the current invocation: [hasBody, body]
    state,      \* "processing", or the terminal outcome of the invocation
    response,   \* what the invocation's promise settled to
    log,        \* the completed invocations of this process, in order:
                \* a sequence of [event, response]
    userText,   \* the text the handler gives to detectEmotion / generateReply
    emotion,    \* the emotion the handler gives to generateReply
    result,     \* value returned by the call
    pc          \* position of the call: "call" or "done"

vars == <<event, state, response, log, userText, emotion, result, pc>>

---------------------------------------------------------------------------
(* String primitives of the JavaScript runtime used by chat.js.            *)

\* The characters U+0020 .. U+007E in the order of their codes.  A literal of
\* the model holds U+0060 only in front of an apostrophe.
Printable ==
    " !\"#$%&'()*+,-./0123456789:;<=>?@"
      \o "ABCDEFGHIJKLMNOPQRSTUVWXYZ[\\]^_" \o SubSeq("`'", 1, 1)
      \o "abcdefghijklmnopqrstuvwxyz{|}~"

\* The code unit of each character of Printable.
CodeOf ==
    [c \in {SubSeq(Printable, i, i) : i \in 1..Len(Printable)} |->
       31 + (CHOOSE i \in 1..Len(Printable) : SubSeq(Printable, i, i) = c)]

\* The JavaScript string written as a literal of the model.
U(lit) == <<>> \o [i \in 1..Len(lit) |-> CodeOf[SubSeq(lit, i, i)]]

\* String.prototype.charCodeAt(i - 1): -1 (for NaN) outside the string
charCodeAt(s, i) == IF i >= 1 /\ i <= Len(s) THEN s[i] ELSE -1

Min(S) == CHOOSE i \in S : \A j \in S : i <= j

Max(S) == CHOOSE i \in S : \A j \in S : j <= i

(* Code points.  A code unit in U+D800 .. U+DBFF followed by one in        *)
(* U+DC00 .. U+DFFF is a surrogate pair and stands for one code point from *)
(* U+10000 on; every other code unit is a code point by itself.            *)

isHighSurrogate(u) == u \in 55296..56319

isLowSurrogate(u) == u \in 56320..57343

\* Position i holds the first / the second code unit of a surrogate pair.
pairStart(s, i) ==
    isHighSurrogate(charCodeAt(s, i)) /\ isLowSurrogate(charCodeAt(s, i + 1))

pairEnd(s, i) ==
    isLowSurrogate(charCodeAt(s, i)) /\ isHighSurrogate(charCodeAt(s, i - 1))

\* String.prototype.codePointAt(i - 1)
codePointAt(s, i) ==
    IF pairStart(s, i)
    THEN 65536 + ((s[i] - 55296) * 1024) + (s[i + 1] - 56320)
    ELSE s[i]

\* String.fromCodePoint
fromCodePoint(p) ==
    IF p < 65536 THEN <<p>>
    ELSE <<55296 + ((p - 65536) \div 1024), 56320 + ((p - 65536) % 1024)>>

(* String.prototype.toLowerCase maps every code point by the Unicode       *)
(* Character Database (17.0): the simple lower-case mappings, given below  *)
(* as <<first, last, step, offset>> (the code points first, first + step,  *)
(* ... last map to themselves plus offset), and the two special cases of   *)
(* SpecialCasing.txt that hold in every locale, U+0130 and the final       *)
(* sigma.                                                                  *)

LowerCaseRanges ==
    {
      <<65, 90, 1, 32>>, <<192, 214, 1, 32>>, <<216, 222, 1, 32>>,
      <<256, 302, 2, 1>>, <<306, 310, 2, 1>>, <<313, 327, 2, 1>>,
      <<330, 374, 2, 1>>, <<376, 376, 1, -121>>, <<377, 381, 2, 1>>,
      <<385, 385, 1, 210>>, <<386, 388, 2, 1>>, <<390, 390, 1, 206>>,
      <<391, 391, 1, 1>>, <<393, 394, 1, 205>>, <<395, 395, 1, 1>>,
      <<398, 398, 1, 79>>, <<399, 399, 1, 202>>, <<400, 400, 1, 203>>,
      <<401, 401, 1, 1>>, <<403, 403, 1, 205>>, <<404, 404, 1, 207>>,
      <<406, 406, 1, 211>>, <<407, 407, 1, 209>>, <<408, 408, 1, 1>>,
      <<412, 412, 1, 211>>, <<413, 413, 1, 213>>, <<415, 415, 1, 214>>,
      <<416, 420, 2, 1>>, <<422, 422, 1, 218>>, <<423, 423, 1, 1>>,
      <<425, 425, 1, 218>>, <<428, 428, 1, 1>>, <<430, 430, 1, 218>>,
      <<431, 431, 1, 1>>, <<433, 434, 1, 217>>, <<435, 437, 2, 1>>,
      <<439, 439, 1, 219>>, <<440, 440, 1, 1>>, <<444, 444, 1, 1>>,
      <<452, 452, 1, 2>>, <<453, 453, 1, 1>>, <<455, 455, 1, 2>>,
      <<456, 456, 1, 1>>, <<458, 458, 1, 2>>, <<459, 475, 2, 1>>,
      <<478, 494, 2, 1>>, <<497, 497, 1, 2>>, <<498, 500, 2, 1>>,
      <<502, 502, 1, -97>>, <<503, 503, 1, -56>>, <<504, 542, 2, 1>>,
      <<544, 544, 1, -130>>, <<546, 562, 2, 1>>, <<570, 570, 1, 10795>>,
      <<571, 571, 1, 1>>, <<573, 573, 1, -163>>, <<574, 574, 1, 10792>>,
      <<577, 577, 1, 1>>, <<579, 579, 1, -195>>, <<580, 580, 1, 69>>,
      <<581, 581, 1, 71>>, <<582, 590, 2, 1>>, <<880, 882, 2, 1>>,
      <<886, 886, 1, 1>>, <<895, 895, 1, 116>>, <<902, 902, 1, 38>>,
      <<904, 906, 1, 37>>, <<908, 908, 1, 64>>, <<910, 911, 1, 63>>,
      <<913, 929, 1, 32>>, <<931, 939, 1, 32>>, <<975, 975, 1, 8>>,
      <<984, 1006, 2, 1>>, <<1012, 1012, 1, -60>>, <<1015, 1015, 1, 1>>,
      <<1017, 1017, 1, -7>>, <<1018, 1018, 1, 1>>, <<1021, 1023, 1, -130>>,
      <<1024, 1039, 1, 80>>, <<1040, 1071, 1, 32>>, <<1120, 1152, 2, 1>>,
      <<1162, 1214, 2, 1>>, <<1216, 1216, 1, 15>>, <<1217, 1229, 2, 1>>,
      <<1232, 1326, 2, 1>>, <<1329, 1366, 1, 48>>, <<4256, 4293, 1, 7264>>,
      <<4295, 4295, 1, 7264>>, <<4301, 4301, 1, 7264>>, <<5024, 5103, 1, 38864>>,
      <<5104, 5109, 1, 8>>, <<7305, 7305, 1, 1>>, <<7312, 7354, 1, -3008>>,
      <<7357, 7359, 1, -3008>>, <<7680, 7828, 2, 1>>, <<7838, 7838, 1, -7615>>,
      <<7840, 7934, 2, 1>>, <<7944, 7951, 1, -8>>, <<7960, 7965, 1, -8>>,
      <<7976, 7983, 1, -8>>, <<7992, 7999, 1, -8>>, <<8008, 8013, 1, -8>>,
      <<8025, 8031, 2, -8>>, <<8040, 8047, 1, -8>>, <<8072, 8079, 1, -8>>,
      <<8088, 8095, 1, -8>>, <<8104, 8111, 1, -8>>, <<8120, 8121, 1, -8>>,
      <<8122, 8123, 1, -74>>, <<8124, 8124, 1, -9>>, <<8136, 8139, 1, -86>>,
      <<8140, 8140, 1, -9>>, <<8152, 8153, 1, -8>>, <<8154, 8155, 1, -100>>,
      <<8168, 8169, 1, -8>>, <<8170, 8171, 1, -112>>, <<8172, 8172, 1, -7>>,
      <<8184, 8185, 1, -128>>, <<8186, 8187, 1, -126>>, <<8188, 8188, 1, -9>>,
      <<8486, 8486, 1, -7517>>, <<8490, 8490, 1, -8383>>, <<8491, 8491, 1, -8262>>,
      <<8498, 8498, 1, 28>>, <<8544, 8559, 1, 16>>, <<8579, 8579, 1, 1>>,
      <<9398, 9423, 1, 26>>, <<11264, 11311, 1, 48>>, <<11360, 11360, 1, 1>>,
      <<11362, 11362, 1, -10743>>, <<11363, 11363, 1, -3814>>, <<11364, 11364, 1, -10727>>,
      <<11367, 11371, 2, 1>>, <<11373, 11373, 1, -10780>>, <<11374, 11374, 1, -10749>>,
      <<11375, 11375, 1, -10783>>, <<11376, 11376, 1, -10782>>, <<11378, 11378, 1, 1>>,
      <<11381, 11381, 1, 1>>, <<11390, 11391, 1, -10815>>, <<11392, 11490, 2, 1>>,
      <<11499, 11501, 2, 1>>, <<11506, 11506, 1, 1>>, <<42560, 42604, 2, 1>>,
      <<42624, 42650, 2, 1>>, <<42786, 42798, 2, 1>>, <<42802, 42862, 2, 1>>,
      <<42873, 42875, 2, 1>>, <<42877, 42877, 1, -35332>>, <<42878, 42886, 2, 1>>,
      <<42891, 42891, 1, 1>>, <<42893, 42893, 1, -42280>>, <<42896, 42898, 2, 1>>,
      <<42902, 42920, 2, 1>>, <<42922, 42922, 1, -42308>>, <<42923, 42923, 1, -42319>>,
      <<42924, 42924, 1, -42315>>, <<42925, 42925, 1, -42305>>, <<42926, 42926, 1, -42308>>,
      <<42928, 42928, 1, -42258>>, <<42929, 42929, 1, -42282>>, <<42930, 42930, 1, -42261>>,
      <<42931, 42931, 1, 928>>, <<42932, 42946, 2, 1>>, <<42948, 42948, 1, -48>>,
      <<42949, 42949, 1, -42307>>, <<42950, 42950, 1, -35384>>, <<42951, 42953, 2, 1>>,
      <<42955, 42955, 1, -42343>>, <<42956, 42970, 2, 1>>, <<42972, 42972, 1, -42561>>,
      <<42997, 42997, 1, 1>>, <<65313, 65338, 1, 32>>, <<66560, 66599, 1, 40>>,
      <<66736, 66771, 1, 40>>, <<66928, 66938, 1, 39>>, <<66940, 66954, 1, 39>>,
      <<66956, 66962, 1, 39>>, <<66964, 66965, 1, 39>>, <<68736, 68786, 1, 64>>,
      <<68944, 68965, 1, 32>>, <<71840, 71871, 1, 32>>, <<93760, 93791, 1, 32>>,
      <<93856, 93880, 1, 27>>, <<125184, 125217, 1, 34>> }

\* The code points with the property Cased, as <<first, last>>.
CasedRanges ==
    {
      <<65, 90>>, <<97, 122>>, <<170, 170>>, <<181, 181>>, <<186, 186>>,
      <<192, 214>>, <<216, 246>>, <<248, 442>>, <<444, 447>>, <<452, 659>>,
      <<662, 696>>, <<704, 705>>, <<736, 740>>, <<837, 837>>, <<880, 883>>,
      <<886, 887>>, <<890, 893>>, <<895, 895>>, <<902, 902>>, <<904, 906>>,
      <<908, 908>>, <<910, 929>>, <<931, 1013>>, <<1015, 1153>>, <<1162, 1327>>,
      <<1329, 1366>>, <<1376, 1416>>, <<4256, 4293>>, <<4295, 4295>>, <<4301, 4301>>,
      <<4304, 4346>>, <<4348, 4351>>, <<5024, 5109>>, <<5112, 5117>>, <<7296, 7306>>,
      <<7312, 7354>>, <<7357, 7359>>, <<7424, 7615>>, <<7680, 7957>>, <<7960, 7965>>,
      <<7968, 8005>>, <<8008, 8013>>, <<8016, 8023>>, <<8025, 8025>>, <<8027, 8027>>,
      <<8029, 8029>>, <<8031, 8061>>, <<8064, 8116>>, <<8118, 8124>>, <<8126, 8126>>,
      <<8130, 8132>>, <<8134, 8140>>, <<8144, 8147>>, <<8150, 8155>>, <<8160, 8172>>,
      <<8178, 8180>>, <<8182, 8188>>, <<8305, 8305>>, <<8319, 8319>>, <<8336, 8348>>,
      <<8450, 8450>>, <<8455, 8455>>, <<8458, 8467>>, <<8469, 8469>>, <<8473, 8477>>,
      <<8484, 8484>>, <<8486, 8486>>, <<8488, 8488>>, <<8490, 8493>>, <<8495, 8500>>,
      <<8505, 8505>>, <<8508, 8511>>, <<8517, 8521>>, <<8526, 8526>>, <<8544, 8575>>,
      <<8579, 8580>>, <<9398, 9449>>, <<11264, 11492>>, <<11499, 11502>>, <<11506, 11507>>,
      <<11520, 11557>>, <<11559, 11559>>, <<11565, 11565>>, <<42560, 42605>>, <<42624, 42653>>,
      <<42786, 42887>>, <<42891, 42894>>, <<42896, 42972>>, <<42993, 42998>>, <<43000, 43002>>,
      <<43824, 43866>>, <<43868, 43881>>, <<43888, 43967>>, <<64256, 64262>>, <<64275, 64279>>,
      <<65313, 65338>>, <<65345, 65370>>, <<66560, 66639>>, <<66736, 66771>>, <<66776, 66811>>,
      <<66928, 66938>>, <<66940, 66954>>, <<66956, 66962>>, <<66964, 66965>>, <<66967, 66977>>,
      <<66979, 66993>>, <<66995, 67001>>, <<67003, 67004>>, <<67456, 67456>>, <<67459, 67461>>,
      <<67463, 67504>>, <<67506, 67514>>, <<68736, 68786>>, <<68800, 68850>>, <<68944, 68965>>,
      <<68976, 68997>>, <<71840, 71903>>, <<93760, 93823>>, <<93856, 93880>>, <<93883, 93907>>,
      <<119808, 119892>>, <<119894, 119964>>, <<119966, 119967>>, <<119970, 119970>>, <<119973, 119974>>,
      <<119977, 119980>>, <<119982, 119993>>, <<119995, 119995>>, <<119997, 120003>>, <<120005, 120069>>,
      <<120071, 120074>>, <<120077, 120084>>, <<120086, 120092>>, <<120094, 120121>>, <<120123, 120126>>,
      <<120128, 120132>>, <<120134, 120134>>, <<120138, 120144>>, <<120146, 120485>>, <<120488, 120512>>,
      <<120514, 120538>>, <<120540, 120570>>, <<120572, 120596>>, <<120598, 120628>>, <<120630, 120654>>,
      <<120656, 120686>>, <<120688, 120712>>, <<120714, 120744>>, <<120746, 120770>>, <<120772, 120779>>,
      <<122624, 122633>>, <<122635, 122654>>, <<122661, 122666>>, <<122928, 122989>>, <<125184, 125251>>,
      <<127280, 127305>>, <<127312, 127337>>, <<127344, 127369>> }

\* The code points with the property Case_Ignorable, as <<first, last>>.
CaseIgnorableRanges ==
    {
      <<39, 39>>, <<46, 46>>, <<58, 58>>, <<94, 94>>, <<96, 96>>,
      <<168, 168>>, <<173, 173>>, <<175, 175>>, <<180, 180>>, <<183, 184>>,
      <<688, 879>>, <<884, 885>>, <<890, 890>>, <<900, 901>>, <<903, 903>>,
      <<1155, 1161>>, <<1369, 1369>>, <<1375, 1375>>, <<1425, 1469>>, <<1471, 1471>>,
      <<1473, 1474>>, <<1476, 1477>>, <<1479, 1479>>, <<1524, 1524>>, <<1536, 1541>>,
      <<1552, 1562>>, <<1564, 1564>>, <<1600, 1600>>, <<1611, 1631>>, <<1648, 1648>>,
      <<1750, 1757>>, <<1759, 1768>>, <<1770, 1773>>, <<1807, 1807>>, <<1809, 1809>>,
      <<1840, 1866>>, <<1958, 1968>>, <<2027, 2037>>, <<2042, 2042>>, <<2045, 2045>>,
      <<2070, 2093>>, <<2137, 2139>>, <<2184, 2184>>, <<2192, 2193>>, <<2199, 2207>>,
      <<2249, 2306>>, <<2362, 2362>>, <<2364, 2364>>, <<2369, 2376>>, <<2381, 2381>>,
      <<2385, 2391>>, <<2402, 2403>>, <<2417, 2417>>, <<2433, 2433>>, <<2492, 2492>>,
      <<2497, 2500>>, <<2509, 2509>>, <<2530, 2531>>, <<2558, 2558>>, <<2561, 2562>>,
      <<2620, 2620>>, <<2625, 2626>>, <<2631, 2632>>, <<2635, 2637>>, <<2641, 2641>>,
      <<2672, 2673>>, <<2677, 2677>>, <<2689, 2690>>, <<2748, 2748>>, <<2753, 2757>>,
      <<2759, 2760>>, <<2765, 2765>>, <<2786, 2787>>, <<2810, 2815>>, <<2817, 2817>>,
      <<2876, 2876>>, <<2879, 2879>>, <<2881, 2884>>, <<2893, 2893>>, <<2901, 2902>>,
      <<2914, 2915>>, <<2946, 2946>>, <<3008, 3008>>, <<3021, 3021>>, <<3072, 3072>>,
      <<3076, 3076>>, <<3132, 3132>>, <<3134, 3136>>, <<3142, 3144>>, <<3146, 3149>>,
      <<3157, 3158>>, <<3170, 3171>>, <<3201, 3201>>, <<3260, 3260>>, <<3263, 3263>>,
      <<3270, 3270>>, <<3276, 3277>>, <<3298, 3299>>, <<3328, 3329>>, <<3387, 3388>>,
      <<3393, 3396>>, <<3405, 3405>>, <<3426, 3427>>, <<3457, 3457>>, <<3530, 3530>>,
      <<3538, 3540>>, <<3542, 3542>>, <<3633, 3633>>, <<3636, 3642>>, <<3654, 3662>>,
      <<3761, 3761>>, <<3764, 3772>>, <<3782, 3782>>, <<3784, 3790>>, <<3864, 3865>>,
      <<3893, 3893>>, <<3895, 3895>>, <<3897, 3897>>, <<3953, 3966>>, <<3968, 3972>>,
      <<3974, 3975>>, <<3981, 3991>>, <<3993, 4028>>, <<4038, 4038>>, <<4141, 4144>>,
      <<4146, 4151>>, <<4153, 4154>>, <<4157, 4158>>, <<4184, 4185>>, <<4190, 4192>>,
      <<4209, 4212>>, <<4226, 4226>>, <<4229, 4230>>, <<4237, 4237>>, <<4253, 4253>>,
      <<4348, 4348>>, <<4957, 4959>>, <<5906, 5908>>, <<5938, 5939>>, <<5970, 5971>>,
      <<6002, 6003>>, <<6068, 6069>>, <<6071, 6077>>, <<6086, 6086>>, <<6089, 6099>>,
      <<6103, 6103>>, <<6109, 6109>>, <<6155, 6159>>, <<6211, 6211>>, <<6277, 6278>>,
      <<6313, 6313>>, <<6432, 6434>>, <<6439, 6440>>, <<6450, 6450>>, <<6457, 6459>>,
      <<6679, 6680>>, <<6683, 6683>>, <<6742, 6742>>, <<6744, 6750>>, <<6752, 6752>>,
      <<6754, 6754>>, <<6757, 6764>>, <<6771, 6780>>, <<6783, 6783>>, <<6823, 6823>>,
      <<6832, 6877>>, <<6880, 6891>>, <<6912, 6915>>, <<6964, 6964>>, <<6966, 6970>>,
      <<6972, 6972>>, <<6978, 6978>>, <<7019, 7027>>, <<7040, 7041>>, <<7074, 7077>>,
      <<7080, 7081>>, <<7083, 7085>>, <<7142, 7142>>, <<7144, 7145>>, <<7149, 7149>>,
      <<7151, 7153>>, <<7212, 7219>>, <<7222, 7223>>, <<7288, 7293>>, <<7376, 7378>>,
      <<7380, 7392>>, <<7394, 7400>>, <<7405, 7405>>, <<7412, 7412>>, <<7416, 7417>>,
      <<7468, 7530>>, <<7544, 7544>>, <<7579, 7679>>, <<8125, 8125>>, <<8127, 8129>>,
      <<8141, 8143>>, <<8157, 8159>>, <<8173, 8175>>, <<8189, 8190>>, <<8203, 8207>>,
      <<8216, 8217>>, <<8228, 8228>>, <<8231, 8231>>, <<8234, 8238>>, <<8288, 8292>>,
      <<8294, 8303>>, <<8305, 8305>>, <<8319, 8319>>, <<8336, 8348>>, <<8400, 8432>>,
      <<11388, 11389>>, <<11503, 11505>>, <<11631, 11631>>, <<11647, 11647>>, <<11744, 11775>>,
      <<11823, 11823>>, <<12293, 12293>>, <<12330, 12333>>, <<12337, 12341>>, <<12347, 12347>>,
      <<12441, 12446>>, <<12540, 12542>>, <<40981, 40981>>, <<42232, 42237>>, <<42508, 42508>>,
      <<42607, 42610>>, <<42612, 42621>>, <<42623, 42623>>, <<42652, 42655>>, <<42736, 42737>>,
      <<42752, 42785>>, <<42864, 42864>>, <<42888, 42890>>, <<42993, 42996>>, <<43000, 43001>>,
      <<43010, 43010>>, <<43014, 43014>>, <<43019, 43019>>, <<43045, 43046>>, <<43052, 43052>>,
      <<43204, 43205>>, <<43232, 43249>>, <<43263, 43263>>, <<43302, 43309>>, <<43335, 43345>>,
      <<43392, 43394>>, <<43443, 43443>>, <<43446, 43449>>, <<43452, 43453>>, <<43471, 43471>>,
      <<43493, 43494>>, <<43561, 43566>>, <<43569, 43570>>, <<43573, 43574>>, <<43587, 43587>>,
      <<43596, 43596>>, <<43632, 43632>>, <<43644, 43644>>, <<43696, 43696>>, <<43698, 43700>>,
      <<43703, 43704>>, <<43710, 43711>>, <<43713, 43713>>, <<43741, 43741>>, <<43756, 43757>>,
      <<43763, 43764>>, <<43766, 43766>>, <<43867, 43871>>, <<43881, 43883>>, <<44005, 44005>>,
      <<44008, 44008>>, <<44013, 44013>>, <<64286, 64286>>, <<64434, 64450>>, <<65024, 65039>>,
      <<65043, 65043>>, <<65056, 65071>>, <<65106, 65106>>, <<65109, 65109>>, <<65279, 65279>>,
      <<65287, 65287>>, <<65294, 65294>>, <<65306, 65306>>, <<65342, 65342>>, <<65344, 65344>>,
      <<65392, 65392>>, <<65438, 65439>>, <<65507, 65507>>, <<65529, 65531>>, <<66045, 66045>>,
      <<66272, 66272>>, <<66422, 66426>>, <<67456, 67461>>, <<67463, 67504>>, <<67506, 67514>>,
      <<68097, 68099>>, <<68101, 68102>>, <<68108, 68111>>, <<68152, 68154>>, <<68159, 68159>>,
      <<68325, 68326>>, <<68900, 68903>>, <<68942, 68942>>, <<68969, 68973>>, <<68975, 68975>>,
      <<69291, 69292>>, <<69317, 69317>>, <<69370, 69375>>, <<69446, 69456>>, <<69506, 69509>>,
      <<69633, 69633>>, <<69688, 69702>>, <<69744, 69744>>, <<69747, 69748>>, <<69759, 69761>>,
      <<69811, 69814>>, <<69817, 69818>>, <<69821, 69821>>, <<69826, 69826>>, <<69837, 69837>>,
      <<69888, 69890>>, <<69927, 69931>>, <<69933, 69940>>, <<70003, 70003>>, <<70016, 70017>>,
      <<70070, 70078>>, <<70089, 70092>>, <<70095, 70095>>, <<70191, 70193>>, <<70196, 70196>>,
      <<70198, 70199>>, <<70206, 70206>>, <<70209, 70209>>, <<70367, 70367>>, <<70371, 70378>>,
      <<70400, 70401>>, <<70459, 70460>>, <<70464, 70464>>, <<70502, 70508>>, <<70512, 70516>>,
      <<70587, 70592>>, <<70606, 70606>>, <<70608, 70608>>, <<70610, 70610>>, <<70625, 70626>>,
      <<70712, 70719>>, <<70722, 70724>>, <<70726, 70726>>, <<70750, 70750>>, <<70835, 70840>>,
      <<70842, 70842>>, <<70847, 70848>>, <<70850, 70851>>, <<71090, 71093>>, <<71100, 71101>>,
      <<71103, 71104>>, <<71132, 71133>>, <<71219, 71226>>, <<71229, 71229>>, <<71231, 71232>>,
      <<71339, 71339>>, <<71341, 71341>>, <<71344, 71349>>, <<71351, 71351>>, <<71453, 71453>>,
      <<71455, 71455>>, <<71458, 71461>>, <<71463, 71467>>, <<71727, 71735>>, <<71737, 71738>>,
      <<71995, 71996>>, <<71998, 71998>>, <<72003, 72003>>, <<72148, 72151>>, <<72154, 72155>>,
      <<72160, 72160>>, <<72193, 72202>>, <<72243, 72248>>, <<72251, 72254>>, <<72263, 72263>>,
      <<72273, 72278>>, <<72281, 72283>>, <<72330, 72342>>, <<72344, 72345>>, <<72544, 72544>>,
      <<72546, 72548>>, <<72550, 72550>>, <<72752, 72758>>, <<72760, 72765>>, <<72767, 72767>>,
      <<72850, 72871>>, <<72874, 72880>>, <<72882, 72883>>, <<72885, 72886>>, <<73009, 73014>>,
      <<73018, 73018>>, <<73020, 73021>>, <<73023, 73029>>, <<73031, 73031>>, <<73104, 73105>>,
      <<73109, 73109>>, <<73111, 73111>>, <<73177, 73177>>, <<73459, 73460>>, <<73472, 73473>>,
      <<73526, 73530>>, <<73536, 73536>>, <<73538, 73538>>, <<73562, 73562>>, <<78896, 78912>>,
      <<78919, 78933>>, <<90398, 90409>>, <<90413, 90415>>, <<92912, 92916>>, <<92976, 92982>>,
      <<92992, 92995>>, <<93504, 93506>>, <<93547, 93548>>, <<94031, 94031>>, <<94095, 94111>>,
      <<94176, 94177>>, <<94179, 94180>>, <<94194, 94195>>, <<110576, 110579>>, <<110581, 110587>>,
      <<110589, 110590>>, <<113821, 113822>>, <<113824, 113827>>, <<118528, 118573>>, <<118576, 118598>>,
      <<119143, 119145>>, <<119155, 119170>>, <<119173, 119179>>, <<119210, 119213>>, <<119362, 119364>>,
      <<121344, 121398>>, <<121403, 121452>>, <<121461, 121461>>, <<121476, 121476>>, <<121499, 121503>>,
      <<121505, 121519>>, <<122880, 122886>>, <<122888, 122904>>, <<122907, 122913>>, <<122915, 122916>>,
      <<122918, 122922>>, <<122928, 122989>>, <<123023, 123023>>, <<123184, 123197>>, <<123566, 123566>>,
      <<123628, 123631>>, <<124139, 124143>>, <<124398, 124399>>, <<124643, 124643>>, <<124646, 124646>>,
      <<124654, 124655>>, <<124661, 124661>>, <<124671, 124671>>, <<125136, 125142>>, <<125252, 125259>>,
      <<127995, 127999>>, <<917505, 917505>>, <<917536, 917631>>, <<917760, 917999>> }

\* The ranges of R that hold the code point p.
rangesOf(R, p) ==
    {r \in R : r[1] <= p /\ p <= r[2] /\ (Len(r) = 2 \/ (p - r[1]) % r[3] = 0)}

\* The simple lower-case mapping of a code point.
lowerPoint(p) ==
    IF rangesOf(LowerCaseRanges, p) = {} THEN p
    ELSE p + (CHOOSE r \in rangesOf(LowerCaseRanges, p) : TRUE)[4]

\* The code point that starts at position j is a cased letter that is not
\* case-ignorable.
casedAt(s, j) ==
    /\ ~pairEnd(s, j)
    /\ rangesOf(CasedRanges, codePointAt(s, j)) # {}
    /\ rangesOf(CaseIgnorableRanges, codePointAt(s, j)) = {}

\* Every code point of the positions a .. b is case-ignorable.
ignorableBetween(s, a, b) ==
    \A m \in a..b :
      pairEnd(s, m) \/ rangesOf(CaseIgnorableRanges, codePointAt(s, m)) # {}

\* Final_Sigma: the nearest code point before position i that is not
\* case-ignorable is cased, and the nearest one after it is not.
finalSigma(s, i) ==
    /\ \E j \in 1..(i - 1) : casedAt(s, j) /\ ignorableBetween(s, j + 1, i - 1)
    /\ ~\E j \in (i + 1)..Len(s) : casedAt(s, j) /\ ignorableBetween(s, i + 1, j - 1)

\* The lower case of the code point that starts at position i; nothing for
\* the second code unit of a surrogate pair.
lowerAt(s, i) ==
    IF s[i] < 128 THEN <<(IF s[i] \in 65..90 THEN s[i] + 32 ELSE s[i])>>
    ELSE IF pairEnd(s, i) THEN <<>>
    ELSE IF s[i] = 304 THEN <<105, 775>>
    ELSE IF s[i] = 931 THEN (IF finalSigma(s, i) THEN <<962>> ELSE <<963>>)
    ELSE fromCodePoint(lowerPoint(codePointAt(s, i)))

RECURSIVE lowerBetween(_, _, _)
\* The lower case of the positions a .. b of s (the range is halved to keep
\* the evaluation shallow).
lowerBetween(s, a, b) ==
    IF a > b THEN <<>>
    ELSE IF a = b THEN lowerAt(s, a)
    ELSE lowerBetween(s, a, (a + b) \div 2)
           \o lowerBetween(s, ((a + b) \div 2) + 1, b)

\* String.prototype.toLowerCase
toLowerCase(s) == lowerBetween(s, 1, Len(s))

\* String.prototype.startsWith(w, i - 1)
startsWith(s, w, i) ==
    i >= 1 /\ i + Len(w) - 1 <= Len(s) /\ SubSeq(s, i, i + Len(w) - 1) = w

\* String.prototype.includes
includes(s, w) ==
    \E i \in 1..(Len(s) - Len(w) + 1) : startsWith(s, w, i)

\* The code units matched by \s and removed by trim, WhiteSpace and
\* LineTerminator: U+0009 .. U+000D, U+0020, U+00A0, U+1680,
\* U+2000 .. U+200A, U+2028, U+2029, U+202F, U+205F, U+3000 and U+FEFF.
WhiteSpace ==
    (9..13) \cup {32, 160, 5760} \cup (8192..8202)
      \cup {8232, 8233, 8239, 8287, 12288, 65279}

isSpace(u) == u \in WhiteSpace

\* The positions of s that hold no white space.
inked(s) == {i \in 1..Len(s) : ~isSpace(s[i])}

\* String.prototype.trim: the text from its first to its last code unit that
\* is no white space.
trim(s) ==
    IF inked(s) = {} THEN <<>> ELSE SubSeq(s, Min(inked(s)), Max(inked(s)))

\* The positions of s where a maximal run of white space starts.
runStarts(s) ==
    {i \in 1..Len(s) : isSpace(s[i]) /\ ~isSpace(charCodeAt(s, i - 1))}

\* The last position of the run of white space that starts at i.
runEnd(s, i) ==
    CHOOSE j \in i..Len(s) :
      /\ \A m \in i..j : isSpace(s[m])
      /\ ~isSpace(charCodeAt(s, j + 1))

\* The k-th smallest element of a set of numbers.
nth(S, k) == CHOOSE i \in S : Cardinality({j \in S : j < i}) = k - 1

\* String.prototype.split(/\s+/): every maximal run of white space separates
\* two pieces, so r runs give r + 1 pieces.  A text that starts or ends with
\* white space has an empty first or last piece; the empty text has the single
\* piece "".
split(s) ==
    LET R == runStarts(s)
        first(k) == IF k = 1 THEN 1 ELSE runEnd(s, nth(R, k - 1)) + 1
        last(k) == IF k = Cardinality(R) + 1 THEN Len(s) ELSE nth(R, k) - 1
    IN  [k \in 1..(Cardinality(R) + 1) |->
           IF first(k) > last(k) THEN <<>> ELSE SubSeq(s, first(k), last(k))]

\* Array.prototype.slice(0, n)
slice(a, n) == SubSeq(a, 1, IF Len(a) < n THEN Len(a) ELSE n)

RECURSIVE join(_, _)
\* Array.prototype.join(sep) on an array of strings
join(a, sep) ==
    IF Len(a) = 0 THEN <<>>
    ELSE IF Len(a) = 1 THEN a[1]
    ELSE a[1] \o sep \o join(Tail(a), sep)

---------------------------------------------------------------------------
(* JavaScript values.                                                      *)

Undefined == [t |-> "undefined", v |-> 0]

Null == [t |-> "null", v |-> 0]

Bool(b) == [t |-> "bool", v |-> b]

\* A number x, see Decimal below.
Num(x) == [t |-> "num", v |-> x]

Str(s) == [t |-> "str", v |-> s]

\* An array: the sequence of its elements.
Arr(a) == [t |-> "arr", v |-> a]

\* An object: the sequence of its members [k |-> key, v |-> value], one for
\* each key, in the order of their creation.
Obj(m) == [t |-> "obj", v |-> m]

(* Numbers.  A JavaScript number is a double.  The model holds a finite    *)
(* double by its sign and by the shortest decimal that reads back as it,   *)
(* which is the decimal Number::toString writes: the digits (numbers 0..9, *)
(* most significant first, no zero in front or at the end, <<>> for zero)  *)
(* and the position of the decimal point, the value being                  *)
(* 0.digits x 10^point.                                                    *)

Decimal(neg, digits, point) ==
    [neg |-> neg, inf |-> FALSE, digits |-> digits, point |-> point]

\* Infinity and -Infinity
Infinity(neg) == [neg |-> neg, inf |-> TRUE, digits |-> <<>>, point |-> 0]

\* ToBoolean
truthy(x) ==
    CASE x.t \in {"undefined", "null"} -> FALSE
      [] x.t = "bool" -> x.v
      [] x.t = "num"  -> x.v.inf \/ x.v.digits # <<>>
      [] x.t = "str"  -> x.v # <<>>
      [] OTHER        -> TRUE

\* a || b
orElse(a, b) == IF truthy(a) THEN a ELSE b

---------------------------------------------------------------------------
(* detectEmotion, the phrase banks and generateReply (chat.js 10-49).      *)

\* The keyword arrays of detectEmotion, in the order the code tests them.
KEYWORDS ==
    << [label |-> U("sad"),
        words |-> <<U("sad"), U("unhappy"), U("depressed"), U("cry"), U("lonely")>>],
       [label |-> U("happy"),
        words |-> <<U("happy"), U("glad"), U("awesome"), U("great"), U("joy")>>],
       [label |-> U("angry"),
        words |-> <<U("angry"), U("mad"), U("furious"), U("annoyed"), U("hate")>>],
       [label |-> U("anxious"),
        words |-> <<U("anxious"), U("scared"), U("nervous"), U("worried"), U("panic")>>],
       [label |-> U("love"),
        words |-> <<U("love"), U("luv")>>],
       [label |-> U("surprised"),
        words |-> <<U("surprise"), U("surprised"), U("shocked")>>] >>

\* [...].some(w => s.includes(w))
some(words, s) == \E k \in 1..Len(words) : includes(s, words[k])

\* detectEmotion with a seeded fault: the happy test is made before the sad test.
detectEmotion_happyFirst(t) ==
    LET s == toLowerCase(t) IN
    IF some(KEYWORDS[2].words, s) THEN KEYWORDS[2].label
    ELSE IF some(KEYWORDS[1].words, s) THEN KEYWORDS[1].label
    ELSE IF some(KEYWORDS[3].words, s) THEN KEYWORDS[3].label
    ELSE IF some(KEYWORDS[4].words, s) THEN KEYWORDS[4].label
    ELSE IF some(KEYWORDS[5].words, s) THEN KEYWORDS[5].label
    ELSE IF some(KEYWORDS[6].words, s) THEN KEYWORDS[6].label
    ELSE U("neutral")

\* detectEmotion with a seeded fault: state kept by the process makes every
\* request after the first one classify as neutral.
detectEmotion_sticky(t) ==
    LET s == toLowerCase(t) IN
    IF log # <<>> THEN U("neutral")
    ELSE IF some(KEYWORDS[1].words, s) THEN KEYWORDS[1].label
    ELSE IF some(KEYWORDS[2].words, s) THEN KEYWORDS[2].label
    ELSE IF some(KEYWORDS[3].words, s) THEN KEYWORDS[3].label
    ELSE IF some(KEYWORDS[4].words, s) THEN KEYWORDS[4].label
    ELSE IF some(KEYWORDS[5].words, s) THEN KEYWORDS[5].label
    ELSE IF some(KEYWORDS[6].words, s) THEN KEYWORDS[6].label
    ELSE U("neutral")

detectEmotion(t) ==
    LET s == toLowerCase(t) IN
    IF some(KEYWORDS[1].words, s) THEN KEYWORDS[1].label
    ELSE IF some(KEYWORDS[2].words, s) THEN KEYWORDS[2].label
    ELSE IF some(KEYWORDS[3].words, s) THEN KEYWORDS[3].label
    ELSE IF some(KEYWORDS[4].words, s) THEN KEYWORDS[4].label
    ELSE IF some(KEYWORDS[5].words, s) THEN KEYWORDS[5].label
    ELSE IF some(KEYWORDS[6].words, s) THEN KEYWORDS[6].label
    ELSE U("neutral")

\* The keys of VALIDATION and of SUGGESTIONS.
EmotionKeys ==
    { U("sad"), U("angry"), U("anxious"), U("happy"), U("love"),
      U("surprised"), U("neutral") }

\* <<8212>> is the dash U+2014 of five phrases of the banks.
VALIDATION ==
    [e \in EmotionKeys |->
       CASE e = U("sad") ->
              << U("I'm really sorry you're going through this."),
                 U("That must be so difficult") \o <<8212>>
                   \o U("thank you for sharing.") >>
         [] e = U("angry") ->
              << U("I can hear the anger in your words."),
                 U("Anger is a natural reaction.") >>
         [] e = U("anxious") ->
              << U("Being anxious feels overwhelming") \o <<8212>>
                   \o U("you're not alone."),
                 U("I hear that worry. Let's try something grounding.") >>
         [] e = U("happy") ->
              << U("That's wonderful to hear!"),
                 U("I'm glad you're feeling good.") >>
         [] e = U("love") ->
              << U("That's lovely") \o <<8212>>
                   \o U("feeling connected is meaningful."),
                 U("Happy you have warmth in your life.") >>
         [] e = U("surprised") ->
              << U("That sounds surprising."),
                 U("That must have been unexpected.") >>
         [] e = U("neutral") ->
              << U("I'm here and listening."),
                 U("Thanks for sharing.") >> ]

SUGGESTIONS ==
    [e \in EmotionKeys |->
       CASE e = U("sad") ->
              << U("Would you like a quick breathing exercise?"),
                 U("Sometimes writing one sentence about what you feel can help.") >>
         [] e = U("angry") ->
              << U("Try slow 4-4-4 breathing."),
                 U("Name one thing you can change and one you can't.") >>
         [] e = U("anxious") ->
              << U("Try grounding: 5 things you see, 4 touch, 3 hear."),
                 U("Slow deep breaths can help.") >>
         [] e = U("happy") ->
              << U("Want to save this as a happy memory?"),
                 U("Want to celebrate with a compliment?") >>
         [] e = U("love") ->
              << U("Would you like to reflect on what made this connection strong?"),
                 U("Note this as a positive memory?") >>
         [] e = U("surprised") ->
              << U("Do you want to unpack what surprised you?"),
                 U("If it's good") \o <<8212>> \o U("congrats! If not, I'm here.") >>
         [] e = U("neutral") ->
              << U("Would you like a prompt") \o <<8212>>
                   \o U("like 'What happened today?'"),
                 U("We can try a short check-in exercise.") >> ]

\* Math.random() takes the values k / RandomSteps, k in 0 .. RandomSteps-1.
RandomSteps == 2

RandomDraws == 0..(RandomSteps - 1)

\* list[Math.floor(Math.random() * list.length)], the draw being k/RandomSteps
pick(list, k) == list[((k * Len(list)) \div RandomSteps) + 1]

\* The number of words the reflection echoes: words.slice(0, 12), length > 12
ReflectWords == 12

\* reflection with a seeded fault: the ellipsis is added from ReflectWords words on.
reflection_offByOne(words) ==
    IF Len(words) # 0
    THEN U("You said: \"") \o join(slice(words, ReflectWords), U(" "))
           \o (IF Len(words) >= ReflectWords THEN U("...") ELSE <<>>) \o U("\"")
    ELSE <<>>

\* The template of line 47 over the words of the text.
reflection(words) ==
    IF Len(words) # 0
    THEN U("You said: \"") \o join(slice(words, ReflectWords), U(" "))
           \o (IF Len(words) > ReflectWords THEN U("...") ELSE <<>>) \o U("\"")
    ELSE <<>>

\* The names an object literal inherits from Object.prototype: a read of one
\* of them on a phrase bank finds a function or the prototype, which is
\* truthy and has no element at any index.
ObjectPrototypeKeys ==
    { U("constructor"), U("__proto__"), U("hasOwnProperty"),
      U("isPrototypeOf"), U("propertyIsEnumerable"), U("toLocaleString"),
      U("toString"), U("valueOf"), U("__defineGetter__"),
      U("__defineSetter__"), U("__lookupGetter__"), U("__lookupSetter__") }

\* (bank[emotion] || bank.neutral)[Math.floor(Math.random() * length)] of
\* lines 42-45, the draw being k/RandomSteps: a phrase, or undefined when
\* bank[emotion] is inherited.
draw(bank, emo, k) ==
    IF emo \in DOMAIN bank THEN Str(pick(bank[emo], k))
    ELSE IF emo \in ObjectPrototypeKeys THEN Undefined
    ELSE Str(pick(bank[U("neutral")], k))

\* [...].filter(Boolean)
filterBoolean(a) == SelectSeq(a, truthy)

\* The strings of an array of string values.
strings(a) == [n \in 1..Len(a) |-> a[n].v]

\* generateReply with a seeded fault: the suggestion is placed before the reflection.
generateReply_swapped(text, emo, rv, rs) ==
    LET val == draw(VALIDATION, emo, rv)
        sug == draw(SUGGESTIONS, emo, rs)
        words == split(trim(text))
    IN  join(strings(filterBoolean(<<val, sug, Str(reflection(words))>>)), U(" "))

\* generateReply(userText, emotion); rv and rs are the two Math.random() draws.
generateReply(text, emo, rv, rs) ==
    LET val == draw(VALIDATION, emo, rv)
        sug == draw(SUGGESTIONS, emo, rs)
        words == split(trim(text))
    IN  join(strings(filterBoolean(<<val, Str(reflection(words)), sug>>)), U(" "))

---------------------------------------------------------------------------
(* The built-ins the handler applies to JavaScript values.                 *)

(* Natural numbers of any size, for the exact arithmetic of the conversion *)
(* between decimals and doubles that JSON.parse and Number::toString make: *)
(* a natural is the sequence of its decimal digits, most significant       *)
(* first, <<>> for zero.                                                   *)

\* The digits of a without the zeros in front.
stripZeros(a) ==
    LET nz == {i \in 1..Len(a) : a[i] # 0}
    IN  IF nz = {} THEN <<>> ELSE SubSeq(a, Min(nz), Len(a))

\* n zeros
zeros(n) == [i \in 1..n |-> 0]

RECURSIVE digitsOf(_)
\* The natural of an integer n >= 0 of the model.
digitsOf(n) == IF n = 0 THEN <<>> ELSE Append(digitsOf(n \div 10), n % 10)

RECURSIVE toNat(_)
\* The integer of a natural small enough to be one.
toNat(a) == IF a = <<>> THEN 0 ELSE (toNat(SubSeq(a, 1, Len(a) - 1)) * 10) + a[Len(a)]

\* a < b for naturals without zeros in front
natLess(a, b) ==
    \/ Len(a) < Len(b)
    \/ /\ Len(a) = Len(b)
       /\ \E i \in 1..Len(a) :
            /\ \A j \in 1..(i - 1) : a[j] = b[j]
            /\ a[i] < b[i]

\* Columns of numbers up to 18, the first one zero, written as digits: a
\* column takes a carry when a column to its right is 10 or more and all the
\* columns between them are 9.
carried(v) ==
    CHOOSE r \in
      { <<>> \o [k \in 1..Len(w) |->
                   (w[k] + (IF \E j \in (k + 1)..Len(w) :
                                  /\ w[j] >= 10
                                  /\ \A i \in (k + 1)..(j - 1) : w[i] = 9
                            THEN 1 ELSE 0)) % 10] : w \in {v} } : TRUE

RECURSIVE settle(_)
\* Passes of carries over columns of any size until every column is 18 or
\* less: in a pass each column keeps its last digit and takes the tens of the
\* column to its right.
settle(v) ==
    CHOOSE r \in
      { IF \A k \in 1..Len(w) : w[k] <= 18 THEN w
        ELSE settle(<<>> \o [k \in 1..Len(w) |->
                      (w[k] % 10) + (IF k < Len(w) THEN w[k + 1] \div 10 ELSE 0)])
          : w \in {v} } : TRUE

\* a + b
add(a, b) ==
    CHOOSE r \in
      { stripZeros(carried(<<0>> \o
          [k \in 1..Max({Len(x), Len(y)}) |->
             (IF k > Max({Len(x), Len(y)}) - Len(x)
              THEN x[k - (Max({Len(x), Len(y)}) - Len(x))] ELSE 0)
             + (IF k > Max({Len(x), Len(y)}) - Len(y)
                THEN y[k - (Max({Len(x), Len(y)}) - Len(y))] ELSE 0)]))
          : x \in {a}, y \in {b} } : TRUE

\* a - b for a >= b: a column borrows when a column to its right is negative
\* and all the columns between them are zero.
subtract(a, b) ==
    CHOOSE r \in
      { LET v == <<>> \o [k \in 1..Len(x) |->
                            x[k] - (IF k > Len(x) - Len(y)
                                    THEN y[k - (Len(x) - Len(y))] ELSE 0)]
        IN  stripZeros(<<>> \o
              [k \in 1..Len(v) |->
                 (v[k] + 10 - (IF \E j \in (k + 1)..Len(v) :
                                     /\ v[j] < 0
                                     /\ \A i \in (k + 1)..(j - 1) : v[i] = 0
                               THEN 1 ELSE 0)) % 10])
          : x \in {a}, y \in {b} } : TRUE

RECURSIVE dot(_, _, _, _, _)
\* a[lo] b[k+1-lo] + ... + a[hi] b[k+1-hi] (the range is halved to keep the
\* evaluation shallow)
dot(a, b, k, lo, hi) ==
    IF lo > hi THEN 0
    ELSE IF lo = hi THEN a[lo] * b[k + 1 - lo]
    ELSE dot(a, b, k, lo, (lo + hi) \div 2)
           + dot(a, b, k, ((lo + hi) \div 2) + 1, hi)

\* a x b by columns: column k holds the products of the digits a[i] and b[j]
\* with i + j = k + 1; six columns in front take the carries.
mul(a, b) ==
    CHOOSE r \in
      { IF x = <<>> \/ y = <<>> THEN <<>>
        ELSE stripZeros(carried(settle(zeros(6) \o
               [k \in 1..(Len(x) + Len(y) - 1) |->
                  dot(x, y, k, Max({1, k + 1 - Len(y)}), Min({k, Len(x)}))])))
          : x \in {a}, y \in {b} } : TRUE

RECURSIVE pow(_, _)
\* b^t by squaring
pow(b, t) ==
    IF t = 0 THEN <<1>>
    ELSE CHOOSE r \in
           { IF t % 2 = 0 THEN mul(h, h) ELSE mul(mul(h, h), b)
               : h \in {pow(b, t \div 2)} } : TRUE

(* Exact decimals [digits, point]: the value is 0.digits x 10^point.       *)

\* The decimal 0.d x 10^p for any digits d.
exact(d, p) ==
    CHOOSE r \in
      { IF stripZeros(x) = <<>> THEN [digits |-> <<>>, point |-> 0]
        ELSE [digits |-> SubSeq(stripZeros(x), 1,
                                Max({i \in 1..Len(stripZeros(x)) : stripZeros(x)[i] # 0})),
              point |-> p - (Len(x) - Len(stripZeros(x)))]
          : x \in {d} } : TRUE

\* The decimal of the natural a x 10^q.
exactNat(a, q) == exact(a, Len(a) + q)

\* 2^t for an integer t, as a natural and a power of ten: 2^t itself, or
\* 5^-t x 10^t.
twoTo(t) ==
    IF t >= 0 THEN [digits |-> pow(<<2>>, t), shift |-> 0]
    ELSE [digits |-> pow(<<5>>, 0 - t), shift |-> t]

\* x * 2^t for a decimal x and an integer t.
scale2(x, t) ==
    CHOOSE r \in
      { exactNat(mul(y.digits, u.digits), y.point - Len(y.digits) + u.shift)
          : y \in {x}, u \in {twoTo(t)} } : TRUE

\* The digit of d at position i, zero before the first and after the last.
digitAt(d, i) == IF i \in 1..Len(d) THEN d[i] ELSE 0

\* x < y for exact decimals
exactLess(x, y) ==
    IF y.digits = <<>> THEN FALSE
    ELSE IF x.digits = <<>> THEN TRUE
    ELSE \/ x.point < y.point
         \/ /\ x.point = y.point
            /\ \E i \in 1..Max({Len(x.digits), Len(y.digits)}) :
                 /\ \A j \in 1..(i - 1) : digitAt(x.digits, j) = digitAt(y.digits, j)
                 /\ digitAt(x.digits, i) < digitAt(y.digits, i)

\* The natural floor(x) of an exact decimal x.
intPart(x) ==
    IF x.point <= 0 THEN <<>>
    ELSE IF x.point >= Len(x.digits)
    THEN x.digits \o zeros(x.point - Len(x.digits))
    ELSE SubSeq(x.digits, 1, x.point)

\* The digits of x - floor(x) after the point.
fracPart(x) ==
    IF x.point <= 0 THEN zeros(0 - x.point) \o x.digits
    ELSE IF x.point >= Len(x.digits) THEN <<>>
    ELSE SubSeq(x.digits, x.point + 1, Len(x.digits))

(* A double is [m, e]: the value is m x 2^(e - 52) with m < 2^53, and      *)
(* m >= 2^52 unless e = -1022 (the subnormal numbers).                     *)

\* The least exponent; the greatest one is 1023.
MinExponent == -1022

\* 2^52
TwoPow52 == <<4, 5, 0, 3, 5, 9, 9, 6, 2, 7, 3, 7, 0, 4, 9, 6>>

\* An exponent that is not below floor(log2 x) for a decimal x with its point
\* at p, so that 10^(p-1) <= x < 10^p: p x log2(10) rounded up.
exponentAbove(p) == ((p * 3321929) \div 1000000) + 1

RECURSIVE findExponent(_, _)
\* w is x * 2^(52 - c) and below 2^53: doubled until it is 2^52 or more, or c
\* is the least exponent.
findExponent(w, c) ==
    CHOOSE r \in
      { IF c > MinExponent /\ natLess(intPart(y), TwoPow52)
        THEN findExponent(scale2(y, 1), c - 1)
        ELSE [w |-> y, e |-> c]
          : y \in {w} } : TRUE

\* The fraction written by the digits of f from position i on, against one
\* half: -1 below, 0 equal, 1 above.
againstHalf(f, i) ==
    IF digitAt(f, i) < 5 THEN -1
    ELSE IF digitAt(f, i) > 5 \/ \E j \in (i + 1)..Len(f) : f[j] # 0 THEN 1
    ELSE 0

\* w rounded to the nearest natural, to the even one from a half.
roundHalfEven(w) ==
    CHOOSE r \in
      { IF againstHalf(fracPart(y), 1) > 0
           \/ (againstHalf(fracPart(y), 1) = 0 /\ digitAt(intPart(y), Len(intPart(y))) % 2 = 1)
        THEN add(intPart(y), <<1>>)
        ELSE intPart(y)
          : y \in {w} } : TRUE

\* The double [m, e] nearest to the positive decimal x, with m = 2^53 carried
\* into the exponent.
nearest(x) ==
    CHOOSE r \in
      { IF roundHalfEven(f.w) = mul(TwoPow52, <<2>>) THEN [m |-> TwoPow52, e |-> f.e + 1]
        ELSE [m |-> roundHalfEven(f.w), e |-> f.e]
          : f \in { findExponent(scale2(x, 52 - Max({exponentAbove(x.point), MinExponent})),
                                 Max({exponentAbove(x.point), MinExponent})) } } : TRUE

\* The decimal c reads back as a double: it lies between lo and hi, both
\* included when the double is even.
readsBack(c, lo, hi, even) ==
    IF even THEN ~exactLess(c, lo) /\ ~exactLess(hi, c)
    ELSE exactLess(lo, c) /\ exactLess(c, hi)

\* The exact decimal x cut after k digits, and the next decimal of k digits.
cut(x, k) == exact(SubSeq(x.digits, 1, Min({k, Len(x.digits)})), x.point)

above(x, k) ==
    exactNat(add(SubSeq(x.digits, 1, Min({k, Len(x.digits)}))
                   \o zeros(k - Min({k, Len(x.digits)})), <<1>>),
             x.point - k)

\* Of the two decimals of k digits around x: the one that reads back as the
\* double; of two that do, the one nearer to x, the even one from the middle.
chosen(x, k, lo, hi, even) ==
    IF ~readsBack(above(x, k), lo, hi, even) THEN cut(x, k)
    ELSE IF ~readsBack(cut(x, k), lo, hi, even) THEN above(x, k)
    ELSE IF againstHalf(x.digits, k + 1) < 0 THEN cut(x, k)
    ELSE IF againstHalf(x.digits, k + 1) > 0 THEN above(x, k)
    ELSE IF digitAt(x.digits, k) % 2 = 0 THEN cut(x, k)
    ELSE above(x, k)

\* The shortest decimal between lo and hi around the exact decimal x of a
\* double: the least number of digits for which a decimal around x lies
\* between them.  Seventeen digits tell any two doubles apart.
shortestAround(x, lo, hi, even) ==
    chosen(x,
           Min({k \in 1..17 :
                  \/ readsBack(cut(x, k), lo, hi, even)
                  \/ readsBack(above(x, k), lo, hi, even)}),
           lo, hi, even)

\* The shortest decimal that reads back as the double b.  The decimals that
\* do lie between the middle to the double below and the middle to the double
\* above, both included when m is even; the double below is half as far when
\* m = 2^52 above the subnormals.  In quarters of the distance from b to the
\* next double, u, the double is 4m and the middles are 4m - 2 (or 4m - 1) and
\* 4m + 2.
shortest(b) ==
    CHOOSE r \in
      { shortestAround(q[1], q[2], q[3], b.m[Len(b.m)] % 2 = 0)
          : q \in { << exactNat(mul(mul(b.m, <<4>>), u.digits), u.shift),
                       exactNat(mul(subtract(mul(b.m, <<4>>),
                                             IF b.m = TwoPow52 /\ b.e > MinExponent
                                             THEN <<1>> ELSE <<2>>),
                                    u.digits), u.shift),
                       exactNat(mul(add(mul(b.m, <<4>>), <<2>>), u.digits), u.shift) >>
                       : u \in {twoTo(b.e - 54)} } } : TRUE

\* b is the double nearest to a decimal of the sign neg.
ofDouble(neg, b) ==
    IF b.m = <<>> THEN Decimal(neg, <<>>, 0)
    ELSE IF b.e > 1023 THEN Infinity(neg)
    ELSE CHOOSE r \in {Decimal(neg, s.digits, s.point) : s \in {shortest(b)}} : TRUE

\* The number a decimal literal reads as: the double nearest to 0.d x 10^p,
\* d being any digits.  A decimal with its point beyond 310 is Infinity and
\* one with its point before -324 is zero; a decimal of at most 15 digits with
\* its point in -306 .. 308 is a double above the subnormals and below
\* Infinity, and the shortest decimal that reads back as it.
toDouble(neg, d, p) ==
    CHOOSE r \in
      { IF x.digits = <<>> THEN Decimal(neg, <<>>, 0)
        ELSE IF x.point > 310 THEN Infinity(neg)
        ELSE IF x.point < -324 THEN Decimal(neg, <<>>, 0)
        ELSE IF Len(x.digits) <= 15 /\ x.point \in (-306)..308
        THEN Decimal(neg, x.digits, x.point)
        ELSE ofDouble(neg, nearest(x))
          : x \in {exact(d, p)} } : TRUE

\* The number of an integer of the model.
fromInt(n) ==
    IF n < 0 THEN toDouble(TRUE, digitsOf(0 - n), Len(digitsOf(0 - n)))
    ELSE toDouble(FALSE, digitsOf(n), Len(digitsOf(n)))

\* The code units of the digits d.
digitCodes(d) == <<>> \o [i \in 1..Len(d) |-> CodeOf["0"] + d[i]]

\* The decimal numeral of an integer n >= 0 of the model.
natToString(n) == IF n = 0 THEN U("0") ELSE digitCodes(digitsOf(n))

\* Number::toString for a positive finite number with the k digits d and the
\* decimal point at n: an integer, a fraction, a fraction below one, or the
\* exponential notation.
positiveToString(d, n) ==
    IF Len(d) <= n /\ n <= 21 THEN digitCodes(d \o zeros(n - Len(d)))
    ELSE IF 0 < n /\ n <= 21
    THEN digitCodes(SubSeq(d, 1, n)) \o U(".") \o digitCodes(SubSeq(d, n + 1, Len(d)))
    ELSE IF -6 < n /\ n <= 0 THEN U("0.") \o digitCodes(zeros(0 - n) \o d)
    ELSE digitCodes(SubSeq(d, 1, 1))
           \o (IF Len(d) = 1 THEN <<>> ELSE U(".") \o digitCodes(SubSeq(d, 2, Len(d))))
           \o U("e") \o (IF n - 1 < 0 THEN U("-") \o natToString(1 - n)
                         ELSE U("+") \o natToString(n - 1))

\* Number.prototype.toString
numberToString(x) ==
    IF x.inf THEN (IF x.neg THEN U("-Infinity") ELSE U("Infinity"))
    ELSE IF x.digits = <<>> THEN U("0")
    ELSE (IF x.neg THEN U("-") ELSE <<>>) \o positiveToString(x.digits, x.point)

\* The outcome of an evaluation that may throw.
Thrown == [threw |-> TRUE, val |-> Undefined]

Returned(x) == [threw |-> FALSE, val |-> x]

(* JSON.parse, a recursive descent over the code units of the text, with   *)
(* the grammar of ECMA-404.  A parser result is [ok, val, pos]: pos is the *)
(* position after the value.                                               *)

ParseFail == [ok |-> FALSE, val |-> Undefined, pos |-> 0]

ParseOk(x, p) == [ok |-> TRUE, val |-> x, pos |-> p]

\* The first position from i on that holds no white space of JSON: space,
\* tab, line feed, carriage return.
skipWs(s, i) ==
    Min({j \in i..(Len(s) + 1) : charCodeAt(s, j) \notin {32, 9, 10, 13}}
          \cup {Max({i, Len(s) + 1})})

isDigit(u) == u \in CodeOf["0"]..CodeOf["9"]

\* The value of a hexadecimal digit, -1 for any other code unit.
hexValue(u) ==
    IF isDigit(u) THEN u - CodeOf["0"]
    ELSE IF u \in CodeOf["a"]..CodeOf["f"] THEN u - CodeOf["a"] + 10
    ELSE IF u \in CodeOf["A"]..CodeOf["F"] THEN u - CodeOf["A"] + 10
    ELSE -1

\* The code unit written by the four hexadecimal digits at positions j .. j+3.
hexCode(s, j) ==
    (((((hexValue(s[j]) * 16) + hexValue(s[j + 1])) * 16) + hexValue(s[j + 2])) * 16)
      + hexValue(s[j + 3])

\* The code unit an escape sequence \c stands for; -1 when \c is no escape
\* of one character (\u takes four hexadecimal digits, see decode).
unescape(u) ==
    CASE u = CodeOf["\""] -> CodeOf["\""]
      [] u = CodeOf["\\"] -> CodeOf["\\"]
      [] u = CodeOf["/"]  -> CodeOf["/"]
      [] u = CodeOf["b"]  -> 8
      [] u = CodeOf["f"]  -> 12
      [] u = CodeOf["n"]  -> 10
      [] u = CodeOf["r"]  -> 13
      [] u = CodeOf["t"]  -> 9
      [] OTHER          -> -1

\* The number of backslashes that precede position j without interruption,
\* counted from position i on.
backslashes(s, i, j) ==
    LET stops == {m \in i..(j - 1) : s[m] # CodeOf["\\"]}
    IN  IF stops = {} THEN j - i ELSE j - 1 - Max(stops)

\* Position j of a string literal that starts at i holds the character that
\* closes an escape sequence: an odd number of backslashes precedes it.
closesEscape(s, i, j) == backslashes(s, i, j) % 2 = 1

\* Position j holds the u of an escape sequence \uXXXX.
unicodeEscape(s, i, j) == s[j] = CodeOf["u"] /\ closesEscape(s, i, j)

\* Position j holds one of the four digits of an escape sequence \uXXXX.
inUnicodeEscape(s, i, j) ==
    \E d \in 1..4 : j - d >= i /\ unicodeEscape(s, i, j - d)

RECURSIVE decode(_, _, _, _)
\* The code units that positions a..b of the literal starting at i stand for
\* (the range is halved to keep the evaluation shallow).
decode(s, i, a, b) ==
    IF a > b THEN <<>>
    ELSE IF a = b
    THEN IF (s[a] = CodeOf["\\"] /\ ~closesEscape(s, i, a)) \/ inUnicodeEscape(s, i, a)
         THEN <<>>
         ELSE IF unicodeEscape(s, i, a) THEN <<hexCode(s, a + 1)>>
         ELSE IF closesEscape(s, i, a) THEN <<unescape(s[a])>>
         ELSE <<s[a]>>
    ELSE decode(s, i, a, (a + b) \div 2) \o decode(s, i, ((a + b) \div 2) + 1, b)

\* i is the position after the opening quote of a string literal.  The literal
\* ends at the first quote that closes no escape; it is rejected when it does
\* not end, holds a code unit below U+0020, an unknown escape or a \u without
\* four hexadecimal digits.
parseString(s, i) ==
    LET ends == {j \in i..Len(s) : s[j] = CodeOf["\""] /\ ~closesEscape(s, i, j)}
        close == Min(ends)
        bad(j) == \/ s[j] < 32
                  \/ /\ unicodeEscape(s, i, j)
                     /\ \E d \in 1..4 : j + d >= close \/ hexValue(s[j + d]) < 0
                  \/ /\ closesEscape(s, i, j)
                     /\ s[j] # CodeOf["u"]
                     /\ unescape(s[j]) = -1
    IN  IF ends = {} THEN ParseFail
        ELSE IF \E j \in i..(close - 1) : bad(j) THEN ParseFail
        ELSE ParseOk(Str(decode(s, i, i, close - 1)), close + 1)

\* The position after the digits that start at position i: i itself when
\* position i holds no digit.
digitsEnd(s, i) ==
    CHOOSE j \in i..(Len(s) + 1) :
      /\ \A m \in i..(j - 1) : isDigit(s[m])
      /\ ~isDigit(charCodeAt(s, j))

\* The position after the fraction that may start at a: a point and at least
\* one digit.
fracEnd(s, a) ==
    IF charCodeAt(s, a) = CodeOf["."] /\ isDigit(charCodeAt(s, a + 1))
    THEN digitsEnd(s, a + 1) ELSE a

\* The position of the first digit of an exponent whose letter is at b.
expStart(s, b) ==
    IF charCodeAt(s, b + 1) \in {CodeOf["+"], CodeOf["-"]} THEN b + 2 ELSE b + 1

\* The position after the exponent that may start at b: e or E, a sign or
\* none, and at least one digit.
expEnd(s, b) ==
    IF charCodeAt(s, b) \in {CodeOf["e"], CodeOf["E"]} /\ isDigit(charCodeAt(s, expStart(s, b)))
    THEN digitsEnd(s, expStart(s, b)) ELSE b

\* The digits written at the positions a .. b.
digitsAt(s, a, b) == <<>> \o [n \in 1..(b - a + 1) |-> s[a + n - 1] - CodeOf["0"]]

\* The value of an exponent written with the digits d.  An exponent of more
\* than nine significant digits moves the decimal point of any literal a
\* string can hold beyond the range of the doubles, as 10^9 does.
expValue(d) ==
    IF Len(stripZeros(d)) > 9 THEN 1000000000 ELSE toNat(stripZeros(d))

\* The exponent of the literal whose fraction ends before b and whose
\* exponent ends before c.
exponent(s, b, c) ==
    IF c = b THEN 0
    ELSE IF s[b + 1] = CodeOf["-"] THEN 0 - expValue(digitsAt(s, expStart(s, b), c - 1))
    ELSE expValue(digitsAt(s, expStart(s, b), c - 1))

\* The literal has its integer part at i .. a-1, its fraction at a .. b-1 and
\* its exponent at b .. c-1.
numberAt(s, i, a, b, c, neg) ==
    ParseOk(Num(toDouble(neg, digitsAt(s, i, a - 1) \o digitsAt(s, a + 1, b - 1),
                         (a - i) + exponent(s, b, c))),
            c)

\* The integer part is at i .. a-1.
afterInt(s, i, a, neg) ==
    numberAt(s, i, a, fracEnd(s, a), expEnd(s, fracEnd(s, a)), neg)

\* i is the position of the first digit of a number literal, after its sign;
\* a zero is an integer part by itself.
parseNumber(s, i, neg) ==
    IF ~isDigit(charCodeAt(s, i)) THEN ParseFail
    ELSE afterInt(s, i, IF s[i] = CodeOf["0"] THEN i + 1 ELSE digitsEnd(s, i), neg)

RECURSIVE parseValue(_, _)
RECURSIVE parseElements(_, _, _)
RECURSIVE parseMembers(_, _, _)

\* i is the position of the first code unit of a value.
parseValue(s, i) ==
    LET c == charCodeAt(s, i) IN
    IF c = CodeOf["{"]
    THEN IF charCodeAt(s, skipWs(s, i + 1)) = CodeOf["}"]
         THEN ParseOk(Obj(<<>>), skipWs(s, i + 1) + 1)
         ELSE parseMembers(s, skipWs(s, i + 1), <<>>)
    ELSE IF c = CodeOf["["]
    THEN IF charCodeAt(s, skipWs(s, i + 1)) = CodeOf["]"]
         THEN ParseOk(Arr(<<>>), skipWs(s, i + 1) + 1)
         ELSE parseElements(s, skipWs(s, i + 1), <<>>)
    ELSE IF c = CodeOf["\""] THEN parseString(s, i + 1)
    ELSE IF c = CodeOf["-"] THEN parseNumber(s, i + 1, TRUE)
    ELSE IF isDigit(c) THEN parseNumber(s, i, FALSE)
    ELSE IF startsWith(s, U("null"), i) THEN ParseOk(Null, i + Len("null"))
    ELSE IF startsWith(s, U("true"), i) THEN ParseOk(Bool(TRUE), i + Len("true"))
    ELSE IF startsWith(s, U("false"), i)
         THEN ParseOk(Bool(FALSE), i + Len("false"))
    ELSE ParseFail

\* j is the position after an element and the white space that follows it,
\* acc the elements read: a comma continues the array, a bracket ends it.
afterElement(s, j, acc) ==
    IF charCodeAt(s, j) = CodeOf[","] THEN parseElements(s, skipWs(s, j + 1), acc)
    ELSE IF charCodeAt(s, j) = CodeOf["]"] THEN ParseOk(Arr(acc), j + 1)
    ELSE ParseFail

\* r is the parser result for an element of an array.
withElement(s, r, acc) ==
    CHOOSE x \in
      { IF ~q.ok THEN ParseFail
        ELSE afterElement(s, skipWs(s, q.pos), Append(acc, q.val))
          : q \in {r} } : TRUE

\* i is the position of the first code unit of an element of an array.
parseElements(s, i, acc) == withElement(s, parseValue(s, i), acc)

\* The members acc with the member key: val created, or with the value of the
\* member of that key replaced.
define(acc, key, val) ==
    IF \E n \in 1..Len(acc) : acc[n].k = key
    THEN [n \in 1..Len(acc) |->
            IF acc[n].k = key THEN [k |-> key, v |-> val] ELSE acc[n]]
    ELSE Append(acc, [k |-> key, v |-> val])

\* j is the position after a member and the white space that follows it, acc
\* the members read: a comma continues the object, a brace ends it.
afterMember(s, j, acc) ==
    IF charCodeAt(s, j) = CodeOf[","] THEN parseMembers(s, skipWs(s, j + 1), acc)
    ELSE IF charCodeAt(s, j) = CodeOf["}"] THEN ParseOk(Obj(acc), j + 1)
    ELSE ParseFail

\* r is the parser result for the value of the member named key.
withMemberValue(s, key, r, acc) ==
    CHOOSE x \in
      { IF ~q.ok THEN ParseFail
        ELSE afterMember(s, skipWs(s, q.pos), <<>> \o define(acc, key, q.val))
          : q \in {r} } : TRUE

\* c is the position after a member's key and the white space that follows it.
afterKey(s, key, c, acc) ==
    IF charCodeAt(s, c) # CodeOf[":"] THEN ParseFail
    ELSE withMemberValue(s, key, parseValue(s, skipWs(s, c + 1)), acc)

\* k is the parser result for a member's key.
withKey(s, k, acc) ==
    IF ~k.ok THEN ParseFail ELSE afterKey(s, k.val.v, skipWs(s, k.pos), acc)

\* i is the position of the opening quote of a member's key.
parseMembers(s, i, acc) ==
    IF charCodeAt(s, i) # CodeOf["\""] THEN ParseFail
    ELSE withKey(s, parseString(s, i + 1), acc)

\* JSON.parse(text): the value, or a thrown SyntaxError.  Nothing but white
\* space may follow the value.
JSONparse(s) ==
    CHOOSE x \in
      { IF q.ok /\ skipWs(s, q.pos) > Len(s) THEN Returned(q.val) ELSE Thrown
          : q \in {parseValue(s, skipWs(s, 1))} } : TRUE

HexDigits == U("0123456789abcdef")

\* The four hexadecimal digits of a code unit.
toHex4(u) ==
    << HexDigits[(u \div 4096) + 1], HexDigits[((u \div 256) % 16) + 1],
       HexDigits[((u \div 16) % 16) + 1], HexDigits[(u % 16) + 1] >>

\* QuoteJSONString for the code unit at position i of s: the quote, the
\* backslash, the code units below U+0020 and the surrogates outside a pair
\* are escaped.
escapeAt(s, i) ==
    IF s[i] = CodeOf["\""] THEN U("\\\"")
    ELSE IF s[i] = CodeOf["\\"] THEN U("\\\\")
    ELSE IF s[i] = 8 THEN U("\\b")
    ELSE IF s[i] = 9 THEN U("\\t")
    ELSE IF s[i] = 10 THEN U("\\n")
    ELSE IF s[i] = 12 THEN U("\\f")
    ELSE IF s[i] = 13 THEN U("\\r")
    ELSE IF s[i] < 32 THEN U("\\u") \o toHex4(s[i])
    ELSE IF isHighSurrogate(s[i]) /\ ~pairStart(s, i) THEN U("\\u") \o toHex4(s[i])
    ELSE IF isLowSurrogate(s[i]) /\ ~pairEnd(s, i) THEN U("\\u") \o toHex4(s[i])
    ELSE <<s[i]>>

RECURSIVE escapeBetween(_, _, _)
\* The escapes of the positions a .. b of s, in order (the range is halved to
\* keep the evaluation shallow).
escapeBetween(s, a, b) ==
    IF a > b THEN <<>>
    ELSE IF a = b THEN escapeAt(s, a)
    ELSE escapeBetween(s, a, (a + b) \div 2)
           \o escapeBetween(s, ((a + b) \div 2) + 1, b)

escapeString(s) == escapeBetween(s, 1, Len(s))

\* QuoteJSONString
quote(s) == U("\"") \o escapeString(s) \o U("\"")

\* The key is an array index: the canonical numeral of an integer in
\* 0 .. 2^32 - 2 = 4294967294.
isIndex(key) ==
    /\ Len(key) >= 1
    /\ \A i \in 1..Len(key) : isDigit(key[i])
    /\ key[1] # CodeOf["0"] \/ Len(key) = 1
    /\ ~natLess(<<4, 2, 9, 4, 9, 6, 7, 2, 9, 4>>, digitsAt(key, 1, Len(key)))

\* OrdinaryOwnPropertyKeys: the members m of an object in the order of their
\* enumeration, the array indices in ascending order and then the other keys
\* in the order of their creation.
ownMembers(m) ==
    LET idx == {n \in 1..Len(m) : isIndex(m[n].k)}
        number(n) == digitsAt(m[n].k, 1, Len(m[n].k))
        rank(n) == Cardinality({j \in idx : natLess(number(j), number(n))}) + 1
    IN  [r \in 1..Cardinality(idx) |-> m[CHOOSE n \in idx : rank(n) = r]]
          \o SelectSeq(m, LAMBDA x : ~isIndex(x.k))

RECURSIVE JSONstringify(_)
RECURSIVE stringifyAll(_)

\* The JSON texts of the elements of an array, in order: null for undefined.
stringifyAll(a) ==
    IF Len(a) = 0 THEN <<>>
    ELSE <<IF Head(a).t = "undefined" THEN U("null") ELSE JSONstringify(Head(a))>>
           \o stringifyAll(Tail(a))

\* JSON.stringify(value), no indentation: the JSON text, or the value
\* undefined for undefined.  Infinity is written null; the members of an
\* object whose value is undefined are left out.
JSONstringify(x) ==
    CASE x.t = "undefined" -> Undefined
      [] x.t = "null" -> U("null")
      [] x.t = "bool" -> IF x.v THEN U("true") ELSE U("false")
      [] x.t = "num"  -> IF x.v.inf THEN U("null") ELSE numberToString(x.v)
      [] x.t = "str"  -> quote(x.v)
      [] x.t = "arr"  -> U("[") \o join(stringifyAll(x.v), U(",")) \o U("]")
      [] x.t = "obj"  ->
           LET ms == SelectSeq(ownMembers(x.v), LAMBDA m : m.v.t # "undefined") IN
           U("{") \o join([n \in 1..Len(ms) |->
                             quote(ms[n].k) \o U(":") \o JSONstringify(ms[n].v)],
                          U(",")) \o U("}")

\* Own property keys of an object value.
hasOwn(x, key) == x.t = "obj" /\ \E n \in 1..Len(x.v) : x.v[n].k = key

\* data.key: a TypeError on null and undefined; the value of the member of
\* that key for an object; undefined for the other values, none of which has
\* a property named text or session_id.
getProp(x, key) ==
    IF x.t \in {"null", "undefined"} THEN Thrown
    ELSE IF hasOwn(x, key)
    THEN Returned(x.v[CHOOSE n \in 1..Len(x.v) : x.v[n].k = key].v)
    ELSE Returned(Undefined)

RECURSIVE String(_)
RECURSIVE elementStrings(_)

\* h is the string of the first element of an array and r the strings of the
\* elements after it, both evaluations that may have thrown.
consStrings(h, r) ==
    IF h.threw \/ r.threw THEN Thrown ELSE Returned(<<h.val>> \o r.val)

\* ToString of each element for Array.prototype.join: "" for null and
\* undefined.  The result is Thrown as soon as one element throws.
elementStrings(a) ==
    IF Len(a) = 0 THEN Returned(<<>>)
    ELSE consStrings(IF Head(a).t \in {"null", "undefined"}
                     THEN Returned(<<>>) ELSE String(Head(a)),
                     elementStrings(Tail(a)))

\* r is the strings of the elements of an array: Array.prototype.join().
joinStrings(r) == IF r.threw THEN Thrown ELSE Returned(join(r.val, U(",")))

\* String(value).  An object parsed from JSON has no callable toString of its
\* own: with an own member named toString, OrdinaryToPrimitive finds no method
\* returning a primitive and throws a TypeError; without one,
\* Object.prototype.toString answers "[object Object]".
String(x) ==
    CASE x.t = "undefined" -> Returned(U("undefined"))
      [] x.t = "null" -> Returned(U("null"))
      [] x.t = "bool" -> Returned(IF x.v THEN U("true") ELSE U("false"))
      [] x.t = "num"  -> Returned(numberToString(x.v))
      [] x.t = "str"  -> Returned(x.v)
      [] x.t = "arr"  -> joinStrings(elementStrings(x.v))
      [] x.t = "obj"  ->
           IF hasOwn(x, U("toString")) THEN Thrown
           ELSE Returned(U("[object Object]"))

---------------------------------------------------------------------------
(* The handler (chat.js 1-62).                                             *)

NoResponse == [statusCode |-> 0, headers |-> {}, body |-> <<>>]

ClientErrorResponse ==
    [statusCode |-> 400, headers |-> {},
     body |-> JSONstringify(Obj(<<[k |-> U("error"), v |-> Str(U("No text provided."))]>>))]

ServerErrorResponse ==
    [statusCode |-> 500, headers |-> {},
     body |-> JSONstringify(Obj(<<[k |-> U("error"), v |-> Str(U("Server error."))]>>))]

SuccessResponse(emo, reply) ==
    [statusCode |-> 200,
     headers |-> {<<U("Content-Type"), U("application/json")>>},
     body |-> JSONstringify(Obj(<<[k |-> U("emotion"), v |-> Str(emo)],
                                  [k |-> U("scores"), v |-> Obj(<<>>)],
                                  [k |-> U("reply"), v |-> Str(reply)],
                                  [k |-> U("history"), v |-> Arr(<<>>)]>>))]

\* Lines 6-58: text is the trimmed text of the request.
respond(text, rv, rs) ==
    IF text = <<>> THEN Returned(ClientErrorResponse)
    ELSE Returned(SuccessResponse(detectEmotion(text),
                    generateReply(text, detectEmotion(text), rv, rs)))

\* Line 5: const sessionId = String(data.session_id || 'default_session').
\* data is neither null nor undefined here, so the property read returns.
line5(data, text, rv, rs) ==
    IF String(orElse(getProp(data, U("session_id")).val,
                     Str(U("default_session")))).threw
    THEN Thrown
    ELSE respond(text, rv, rs)

\* textStr is the evaluation of String(data.text || '') of line 4.
withTextString(data, textStr, rv, rs) ==
    IF textStr.threw THEN Thrown ELSE line5(data, trim(textStr.val), rv, rs)

\* Line 4: const text = String(data.text || '').trim()
line4(data, rv, rs) ==
    IF getProp(data, U("text")).threw THEN Thrown
    ELSE withTextString(data, String(orElse(getProp(data, U("text")).val, Str(<<>>))),
                        rv, rs)

\* parsed is the evaluation of JSON.parse of line 3.
withParsed(parsed, rv, rs) ==
    CHOOSE x \in
      { IF q.threw THEN Thrown ELSE line4(q.val, rv, rs) : q \in {parsed} } : TRUE

\* The try block, lines 3-58, with the Math.random() draws rv and rs: the
\* response it returns, or Thrown when one of its statements throws.
tryBlock(ev, rv, rs) ==
    withParsed(JSONparse(IF ev.hasBody /\ ev.body # <<>> THEN ev.body ELSE U("{}")),
               rv, rs)

\* p is the evaluation of the try block; the catch clause answers a throw.
catch(p) ==
    IF p.threw THEN [settled |-> "fulfilled", value |-> ServerErrorResponse]
    ELSE [settled |-> "fulfilled", value |-> p.val]

\* p is the evaluation of the try block; a throw is not caught.
noCatch(p) ==
    IF p.threw THEN [settled |-> "rejected", value |-> NoResponse]
    ELSE [settled |-> "fulfilled", value |-> p.val]

\* handler with a seeded fault: without the catch clause the promise rejects.
handler_noCatch(ev, rv, rs) ==
    CHOOSE x \in {noCatch(p) : p \in {tryBlock(ev, rv, rs)}} : TRUE

\* exports.handler: how the promise of the async function settles.
handler(ev, rv, rs) ==
    CHOOSE x \in {catch(p) : p \in {tryBlock(ev, rv, rs)}} : TRUE

\* The outcome of an invocation, by how its promise settled.
outcome(p) ==
    IF p.settled = "rejected" THEN "rejected"
    ELSE IF p.value.statusCode = 200 THEN "success"
    ELSE IF p.value.statusCode = 400 THEN "client_error"
    ELSE "server_error"

Terminal == {"success", "client_error", "server_error", "rejected"}

---------------------------------------------------------------------------
(* The inputs of the model.                                                *)

\* Largest number of words of a text given to generateReply.
MaxWords == 13

\* Largest number of invocations of one process.
MaxRequests == 3

\* A text the handler gives to generateReply, trimmed on line 4 and not empty
\* after line 6: the number of its words, the white space between them (a
\* space; a space, a tab and a line feed; a vertical tab, a no-break space and
\* a line separator) and its last word (a letter when last is empty).
Samples ==
    [n : 1..MaxWords, sep : {U(" "), <<32, 9, 10>>, <<11, 160, 8232>>},
     last : {<<>>, U("sad"), U("glad"), U("hate"), U("panic"), U("love"),
             U("shocked")}]

\* The words of a sample: the letters a, b, c, ... in turn, then its last word.
wordsOf(d) ==
    [i \in 1..d.n |->
       IF i = d.n /\ d.last # <<>> THEN d.last
       ELSE <<CodeOf["a"] + ((i - 1) % 26)>>]

Render(d) == join(wordsOf(d), d.sep)

\* Member sequences of request objects: text and session_id each absent or one
\* of the values below.
TextValues ==
    { Null, Num(fromInt(0)), Num(fromInt(7)), Num(fromInt(-3)),
      Num(Decimal(FALSE, <<1, 5>>, 1)), Bool(FALSE), Bool(TRUE),
      Str(<<>>), Str(U("   ")), Str(<<9, 10>>), Str(<<160, 8233>>), Str(U("0")),
      Str(U("sad")), Str(U("  I am SAD but glad ")), Str(U("I am so sad today")),
      Str(U("this is great news")), Str(U("I am furious")), Str(U("I feel nervous")),
      Str(U("I love you")), Str(U("I was shocked")), Str(U("the sky is blue")),
      Str(U("not happy")), Str(U("nomad")),
      Str(U("she said \"hi\"") \o <<9>> \o U("to me")),
      Str(U("caf") \o <<233, 32, 8212, 32, 55357, 56832>>),
      Str(Render([n |-> ReflectWords, sep |-> U(" "), last |-> <<>>])),
      Str(Render([n |-> MaxWords, sep |-> U(" "), last |-> <<>>])),
      Str(<<32, 65279>>
            \o Render([n |-> MaxWords, sep |-> <<11, 160, 8232>>, last |-> U("sad")])
            \o <<9, 12288>>),
      Arr(<<>>), Arr(<<Str(U("sad"))>>), Arr(<<Null>>),
      Arr(<<Str(U("a")), Num(fromInt(1))>>),
      Obj(<<>>), Obj(<<[k |-> U("toString"), v |-> Num(fromInt(1))]>>),
      Arr(<<Obj(<<[k |-> U("toString"), v |-> Null]>>)>>) }

SessionValues ==
    { Str(U("s1")), Str(<<>>), Num(fromInt(0)), Num(fromInt(5)), Null, Bool(TRUE),
      Arr(<<Str(U("a"))>>), Obj(<<>>), Obj(<<[k |-> U("toString"), v |-> Null]>>) }

RequestObjects ==
    {Obj(<<>>)}
      \cup {Obj(<<[k |-> U("text"), v |-> x]>>) : x \in TextValues}
      \cup {Obj(<<[k |-> U("session_id"), v |-> y]>>) : y \in SessionValues}
      \cup {Obj(<<[k |-> U("text"), v |-> x], [k |-> U("session_id"), v |-> y]>>) :
              x \in TextValues, y \in SessionValues}
      \cup {Obj(<<[k |-> U("text"), v |-> Str(U("glad"))],
                  [k |-> U("10"), v |-> Null], [k |-> U("9"), v |-> Null]>>)}

\* Bodies written by hand: texts that are no JSON, JSON that is no object,
\* insignificant white space, repeated members, number literals (among them
\* 5^1075 x 10^-1075, half of the least double), escape sequences, code units
\* outside ASCII.
RawBodies ==
    { <<>>, U("not json"), U("undefined"), U("{"), U("{\"text\":\"sad\""),
      U("{'text':'sad'}"), U("{\"text\":\"sad\",}"),
      U("{\"text\":\"a") \o <<9>> \o U("b\"}"), U("{\"text\" \"sad\"}"),
      U("null"), U(" null "), U("0"), U("7"), U("true"), U("false"),
      U("\"sad\""), U("\"not json\""),
      U("[]"), U("[\"sad\"]"), U(" { } "), U("{ \"text\" : \"I am sad\" }"),
      U("{\"text\":\"sad\",\"text\":\"glad\"}"),
      U("{\"text\":\"glad\",\"text\":\"\"}"),
      U("{\"text\":\"glad\",\"a\":1,\"text\":\"sad\"}"),
      U("{\"Text\":\"sad\"}"), U("{\"text\":\"glad\"} x"),
      U("{\"text\":1e2}"), U("{\"text\":-2.50E-7}"), U("{\"text\":0.0}"),
      U("{\"text\":-0}"), U("{\"text\":12345678901}"), U("{\"text\":1e400}"),
      U("{\"text\":1e-400}"), U("{\"text\":1e21}"), U("{\"text\":0.000001}"),
      U("{\"text\":12345678901234567890}"),
      U("{\"text\":0.1234567890123456789}"),
      U("{\"text\":1.79769313486231580793e308}"),
      U("{\"text\":2.470328229206232720881e-324}"),
      U("{\"text\":5e-324}"),
      U("{\"text\":") \o digitCodes(pow(<<5>>, 1075)) \o U("e-1075}"),
      U("{\"text\":1.}"), U("{\"text\":01}"), U("{\"text\":\"\\u0073ad\"}"),
      U("{\"text\":\"\\u000b\"}"), U("{\"text\":\"\\u00A0 \"}"),
      U("{\"text\":\"I\\u000bam glad\\bnow\"}"), U("{\"text\":\"\\u12\"}"),
      U("{\"text\":\"a\\qb\"}"),
      U("{\"text\":\"a") \o <<11>> \o U("b\"}"),
      U("{\"text\":\"shoc\\u212Aed\"}"), U("{\"text\":\"\\u0000\"}"),
      U("{\"text\":\"\\ud800\"}"), U("{\"text\":\"\\ud83d\\ude00 joy\"}"),
      U("{\"text\":\"") \o <<8490, 55357, 56832, 56832, 127>> \o U("\"}"),
      U("{\"text\":\"PAN\\u0130C\"}") }

\* event.body is a string, or absent (null or undefined).
Events ==
    {[hasBody |-> FALSE, body |-> <<>>]}
      \cup {[hasBody |-> TRUE, body |-> b] : b \in RawBodies}
      \cup {[hasBody |-> TRUE, body |-> JSONstringify(o)] : o \in RequestObjects}

\* The events of the runs of several invocations.
SeqEvents ==
    { [hasBody |-> TRUE, body |-> b] :
        b \in { U("not json"),
                U("{\"session_id\":\"s1\"}"),
                U("{\"text\":\"I am sad but glad\"}"),
                U("{\"text\":\"I am sad but glad\",\"session_id\":\"s1\"}"),
                U("{\"text\":\"I am sad but glad\",\"session_id\":{\"toString\":null}}"),
                U("{\"text\":\"this is great news\"}") } }

\* Texts given to detectEmotion: two fragments, joined or spaced.
Fragments ==
    { <<>>, U("sad"), U("SAD"), U("unhappy"), U("cry"), U("Glad"), U("great"),
      U("joy"), U("nomad"), U("hate"), U("panic"), U("worried"), U("luv"),
      U("Love"), U("surprise"), U("shocked"), U("blue"), U("sa"), U("d"),
      U("shoc") \o <<8490>> \o U("ed"), U("PAN") \o <<304>> \o U("C") }

DetectTexts ==
    {trim(a \o g \o b) : a \in Fragments, b \in Fragments, g \in {<<>>, U(" ")}}
      \ {<<>>}

---------------------------------------------------------------------------
(* The invocations of the handler.                                         *)

NoCall ==
    /\ userText = <<>>
    /\ emotion = <<>>
    /\ result = <<>>
    /\ pc = "none"

Init ==
    /\ event \in Events
    /\ state = "processing"
    /\ response = NoResponse
    /\ log = <<>>
    /\ NoCall

\* The handler as a function of the events of the model and of the two
\* random draws.
Invocation ==
    [ev \in Events \cup SeqEvents |->
       [rv \in RandomDraws |-> [rs \in RandomDraws |-> handler(ev, rv, rs)]]]

\* The runtime runs the handler to completion: the promise settles.
Handle ==
    /\ state = "processing"
    /\ \E rv \in RandomDraws, rs \in RandomDraws :
         \E p \in {Invocation[event][rv][rs]} :
           /\ state' = outcome(p)
           /\ response' = p.value
           /\ log' = Append(log, [event |-> event, response |-> p.value])
    /\ UNCHANGED <<event, userText, emotion, result, pc>>

Next == Handle

Spec == Init /\ [][Next]_vars

\* The handler has no suspension point (no await, no I/O): the runtime takes
\* the step of an invocation that started.
FairSpec == Spec /\ WF_vars(Handle)

(* Several invocations, one after the other, in one process.               *)

SeqInit ==
    /\ event \in SeqEvents
    /\ state = "processing"
    /\ response = NoResponse
    /\ log = <<>>
    /\ NoCall

\* The runtime invokes the handler again with a new event; a run is followed
\* for MaxRequests invocations.
Invoke ==
    /\ state \in Terminal
    /\ Len(log) < MaxRequests
    /\ event' \in SeqEvents
    /\ state' = "processing"
    /\ response' = NoResponse
    /\ UNCHANGED <<log, userText, emotion, result, pc>>

SeqNext == Handle \/ Invoke

SeqSpec == SeqInit /\ [][SeqNext]_vars

(* The calls of detectEmotion and of generateReply on lines 51 and 52, with *)
(* the texts the handler gives them: trimmed on line 4, not empty after     *)
(* line 6.                                                                  *)

NoInvocation ==
    /\ event = [hasBody |-> FALSE, body |-> <<>>]
    /\ state = "none"
    /\ response = NoResponse
    /\ log = <<>>

DetectInit ==
    /\ NoInvocation
    /\ userText \in DetectTexts
    /\ emotion = <<>>
    /\ result = <<>>
    /\ pc = "call"

CallDetectEmotion ==
    /\ pc = "call"
    /\ result' = detectEmotion(userText)
    /\ pc' = "done"
    /\ UNCHANGED <<event, state, response, log, userText, emotion>>

DetectNext == CallDetectEmotion

DetectSpec == DetectInit /\ [][DetectNext]_vars

\* The emotion given to generateReply is the one detected in the text on
\* line 51.
ReplyInit ==
    /\ NoInvocation
    /\ userText \in {Render(d) : d \in Samples}
    /\ emotion = detectEmotion(userText)
    /\ result = <<>>
    /\ pc = "call"

CallGenerateReply ==
    /\ pc = "call"
    /\ \E rv \in RandomDraws, rs \in RandomDraws :
         result' = generateReply(userText, emotion, rv, rs)
    /\ pc' = "done"
    /\ UNCHANGED <<event, state, response, log, userText, emotion>>

ReplyNext == CallGenerateReply

ReplySpec == ReplyInit /\ [][ReplyNext]_vars

---------------------------------------------------------------------------
(* Vocabulary of the properties.                                           *)

NoTextBody == U("{\"error\":\"No text provided.\"}")

ServerErrorBody == U("{\"error\":\"Server error.\"}")

JsonHeaders == {<<U("Content-Type"), U("application/json")>>}

endsWith(s, w) == startsWith(s, w, Len(s) - Len(w) + 1)

\* w occurs in s as a substring.
occurs(w, s) == \E i \in 1..Len(s), j \in 1..Len(s) : i <= j /\ SubSeq(s, i, j) = w

\* The text of a success body up to the reply, and after it.
BodyHead(e) == U("{\"emotion\":\"") \o e \o U("\",\"scores\":{},\"reply\":\"")

BodyTail == U("\",\"history\":[]}")

\* The emotion field of a response body; the empty string when the body has
\* none.
emotionOf(r) ==
    IF \E e \in EmotionKeys : startsWith(r.body, BodyHead(e), 1)
    THEN CHOOSE e \in EmotionKeys : startsWith(r.body, BodyHead(e), 1)
    ELSE <<>>

\* The phrases a reply may take from a bank for an emotion.
phrases(bank, e) ==
    LET list == IF e \in DOMAIN bank THEN bank[e] ELSE bank[U("neutral")]
    IN  {list[n] : n \in 1..Len(list)}

\* The body of an event read as JSON: Thrown when it is no JSON text.
bodyJson(ev) == JSONparse(ev.body)

\* The members of a request object without session_id.
otherMembers(x) == SelectSeq(x.v, LAMBDA m : m.k # U("session_id"))

\* The text of the request object j, coerced to a string and trimmed.
textOf(j) == trim(String(getProp(j.val, U("text")).val).val)

\* The text the handler works on in a request it answers with success.
requestText(ev) == CHOOSE t \in {textOf(j) : j \in {bodyJson(ev)}} : TRUE

---------------------------------------------------------------------------
(* C1.  A body that is no JSON text is answered like an empty body.        *)

\* C1: whenever the body of the request is not parseable as JSON, the response
\* is status 400 with body {"error":"No text provided."}, never 500.
C1_MalformedBodyIsClientError ==
    (state \in Terminal /\ event.hasBody /\ event.body # <<>>
       /\ bodyJson(event).threw)
      => /\ state = "client_error"
         /\ response.statusCode = 400
         /\ response.body = NoTextBody

(* C2.  A request without text is a client error.                          *)

\* The parsed body j is no object, an object without text, or an object whose
\* text is a string of white space only.
noText(j) ==
    /\ ~j.threw
    /\ \/ j.val.t # "obj"
       \/ ~hasOwn(j.val, U("text"))
       \/ /\ getProp(j.val, U("text")).val.t = "str"
          /\ \A i \in 1..Len(getProp(j.val, U("text")).val.v) :
               isSpace(getProp(j.val, U("text")).val.v[i])

\* The text is missing (no body, an empty body, JSON that is no object, an
\* object without text) or a string of white space only.
TextMissing(ev) ==
    \/ ~ev.hasBody
    \/ ev.body = <<>>
    \/ \E j \in {bodyJson(ev)} : noText(j)

\* C2: whenever text is missing, empty or whitespace-only, the response is
\* status 400 with body exactly {"error":"No text provided."}.
C2_MissingTextIsClientError ==
    (state \in Terminal /\ TextMissing(event))
      => /\ response.statusCode = 400
         /\ response.body = NoTextBody

(* C3.  A request with a non-empty text succeeds.                          *)

\* The parsed body j has a text (a JSON value other than null) whose string
\* form, trimmed, is not empty.
hasText(j) ==
    /\ ~j.threw
    /\ hasOwn(j.val, U("text"))
    /\ getProp(j.val, U("text")).val.t # "null"
    /\ ~String(getProp(j.val, U("text")).val).threw
    /\ textOf(j) # <<>>

TextPresent(ev) ==
    /\ ev.hasBody /\ ev.body # <<>>
    /\ \E j \in {bodyJson(ev)} : hasText(j)

\* C3: whenever the text of the request, coerced to a string and trimmed, is
\* non-empty, the status is 200 and the emotion of the body is one of the
\* seven labels.
C3_NonEmptyTextSucceeds ==
    (state \in Terminal /\ TextPresent(event))
      => /\ response.statusCode = 200
         /\ emotionOf(response) \in EmotionKeys

(* C4.  detectEmotion answers the first keyword set that matches.          *)

ClaimedOrder ==
    <<U("sad"), U("happy"), U("angry"), U("anxious"), U("love"), U("surprised")>>

\* The keywords of a label.
keywordsOf(label) ==
    LET entry == CHOOSE n \in 1..Len(KEYWORDS) : KEYWORDS[n].label = label
    IN  {KEYWORDS[entry].words[k] : k \in 1..Len(KEYWORDS[entry].words)}

\* Some keyword of the n-th label of the claimed order occurs in the text.
setMatches(n, t) == \E w \in keywordsOf(ClaimedOrder[n]) : occurs(w, toLowerCase(t))

\* C4: detectEmotion returns the label of the first keyword set, in the order
\* sad, happy, angry, anxious, love, surprised, with a keyword that is a
\* substring of the lower-cased text, and neutral when no set matches.
C4_FirstMatchingSetWins ==
    pc = "done" =>
      IF \E n \in 1..Len(ClaimedOrder) : setMatches(n, userText)
      THEN \E n \in 1..Len(ClaimedOrder) :
             /\ setMatches(n, userText)
             /\ \A m \in 1..(n - 1) : ~setMatches(m, userText)
             /\ result = ClaimedOrder[n]
      ELSE result = U("neutral")

\* A text with a sad-word and a happy-word has been classified as sad.
C4_Witness ==
    /\ pc = "done"
    /\ setMatches(1, userText) /\ occurs(U("glad"), toLowerCase(userText))
    /\ result = U("sad")

(* C5.  The reflection clause echoes at most twelve words.                 *)

\* The clause claimed for a text of the words ws.
claimedClause(ws) ==
    U("You said: \"")
      \o join(SubSeq(ws, 1, IF Len(ws) < 12 THEN Len(ws) ELSE 12), U(" "))
      \o (IF Len(ws) > 12 THEN U("...") ELSE <<>>) \o U("\"")

\* The piece a phrase of the bank for e contributes in front of the clause
\* (with the space after it) or behind it (with the space before it).
pieces(bank, e, before) ==
    {IF before THEN p \o U(" ") ELSE U(" ") \o p : p \in phrases(bank, e)}

\* C5: for every text of n >= 1 whitespace-separated words, the reflection
\* clause of the reply is You said: "<w>", <w> being the first min(n, 12) words
\* joined by single spaces, followed by ... inside the quotes exactly when
\* n > 12.
C5_ReflectionTruncates ==
    \A d \in Samples :
      (pc = "done" /\ d.n >= 1 /\ userText = Render(d))
        => \E v \in pieces(VALIDATION, emotion, TRUE),
              g \in pieces(SUGGESTIONS, emotion, FALSE) :
             result = v \o claimedClause(wordsOf(d)) \o g

\* A text of thirteen words, the last of them sad, with white space of several
\* kinds between them, has been reflected with its first twelve words and an
\* ellipsis.
C5_Witness ==
    /\ pc = "done"
    /\ userText = Render([n |-> 13, sep |-> <<11, 160, 8232>>, last |-> U("sad")])
    /\ emotion = U("sad")
    /\ occurs(U("You said: \"a b c d e f g h i j k l...\""), result)

(* C6.  The composition of the reply of a successful request.              *)

\* The body of a success response is made of the emotion e detected in the
\* text t, a validation phrase of e, the reflection of t and a suggestion
\* phrase of e.
composed(body, e, t) ==
    /\ e \in EmotionKeys
    /\ e = detectEmotion(t)
    /\ \E v \in phrases(VALIDATION, e), g \in phrases(SUGGESTIONS, e) :
         body = BodyHead(e)
                  \o escapeString(v \o U(" ") \o claimedClause(split(t))
                                    \o U(" ") \o g)
                  \o BodyTail

\* C6: the reply of a successful request is a validation phrase of the detected
\* emotion, the reflection clause and a suggestion phrase of the same emotion,
\* in that order, joined by single spaces; the emotion is a key of the banks.
C6_ReplyComposition ==
    state = "success" =>
      \E e \in {emotionOf(response)}, t \in {requestText(event)} :
        composed(response.body, e, t)

\* The request I love you has been answered with the second validation phrase
\* and the first suggestion phrase of love around its reflection.
C6_Witness ==
    /\ state = "success"
    /\ response.body =
         BodyHead(U("love"))
           \o escapeString(VALIDATION[U("love")][2] \o U(" You said: \"I love you\" ")
                             \o SUGGESTIONS[U("love")][1])
           \o BodyTail

(* C7.  Every invocation ends in one of three outcomes.                    *)

\* The response of a finished invocation fits its outcome, the outcome is one
\* of the three, and a throw of the try block is answered with server_error.
OutcomeShape ==
    /\ state \in {"success", "client_error", "server_error"}
    /\ state = "success" =>
         /\ response.statusCode = 200
         /\ response.headers = JsonHeaders
         /\ emotionOf(response) \in EmotionKeys
         /\ endsWith(response.body, BodyTail)
    /\ state = "client_error" =>
         response = [statusCode |-> 400, headers |-> {}, body |-> NoTextBody]
    /\ state = "server_error" =>
         response = [statusCode |-> 500, headers |-> {}, body |-> ServerErrorBody]
    /\ (\E rv \in RandomDraws, rs \in RandomDraws : tryBlock(event, rv, rs).threw)
         => state = "server_error"

\* C7: every invocation leaves processing and ends in exactly one of success,
\* client_error and server_error, with the response of that outcome; an
\* exception of the try block ends in server_error and is never propagated.
C7_EndsInOneOutcome ==
    /\ [](state # "processing" => OutcomeShape)
    /\ (state = "processing") ~> (state \in {"success", "client_error", "server_error"})

\* An invocation whose try block threw has ended in server_error.
C7_Witness ==
    /\ state = "server_error"
    /\ tryBlock(event, 0, 0).threw
    /\ response.body = ServerErrorBody

(* C8.  Identical requests get the same status and emotion.                *)

\* The reply of body a and the reply of body b consist of the same text
\* between a validation phrase and a suggestion phrase of the emotion e.
samePhrasing(a, b, e) ==
    \E v \in phrases(VALIDATION, e), g \in phrases(SUGGESTIONS, e),
       w \in phrases(VALIDATION, e), h \in phrases(SUGGESTIONS, e) :
      LET head == BodyHead(e) \o escapeString(v \o U(" "))
          tail == escapeString(U(" ") \o g) \o BodyTail
      IN  /\ startsWith(a, head, 1)
          /\ endsWith(a, tail)
          /\ Len(a) >= Len(head) + Len(tail)
          /\ b = BodyHead(e) \o escapeString(w \o U(" "))
                   \o SubSeq(a, Len(head) + 1, Len(a) - Len(tail))
                   \o escapeString(U(" ") \o h) \o BodyTail

\* C8: two handled requests with identical input have the same status and the
\* same emotion, whatever was handled before or between them; their replies
\* differ at most in the validation and suggestion phrases picked.
C8_SameInputSameEmotion ==
    \A i \in DOMAIN log, j \in DOMAIN log :
      LET a == log[i]
          b == log[j]
      IN
      a.event = b.event =>
        /\ a.response.statusCode = b.response.statusCode
        /\ emotionOf(a.response) = emotionOf(b.response)
        /\ a.response # b.response =>
             /\ a.response.statusCode = 200
             /\ samePhrasing(a.response.body, b.response.body, emotionOf(a.response))

\* The same request has been handled twice, with another request between the
\* two, and has got two different replies of the same emotion.
C8_Witness ==
    \E i \in DOMAIN log, j \in DOMAIN log, k \in DOMAIN log :
      /\ i < j /\ j < k
      /\ log[i].event = log[k].event
      /\ log[j].event # log[i].event
      /\ log[i].response # log[k].response
      /\ emotionOf(log[i].response) = U("sad")
      /\ emotionOf(log[k].response) = U("sad")

(* C10.  session_id does not influence the response.                       *)

\* Two events whose bodies are request objects with the same members apart
\* from session_id.
differOnlyInSession(e, f) ==
    /\ e.hasBody /\ f.hasBody
    /\ ~bodyJson(e).threw /\ ~bodyJson(f).threw
    /\ bodyJson(e).val.t = "obj" /\ bodyJson(f).val.t = "obj"
    /\ otherMembers(bodyJson(e).val) = otherMembers(bodyJson(f).val)

\* The responses the handler may give to an event.
possibleResponses(ev) ==
    {handler(ev, rv, rs).value : rv \in RandomDraws, rs \in RandomDraws}

\* C10: two handled requests that differ only in session_id have the same
\* status, the same emotion and the same possible replies.
C10_SessionIdIgnored ==
    \A i \in DOMAIN log, j \in DOMAIN log :
      LET a == log[i]
          b == log[j]
      IN
      differOnlyInSession(a.event, b.event) =>
        /\ a.response.statusCode = b.response.statusCode
        /\ emotionOf(a.response) = emotionOf(b.response)
        /\ possibleResponses(a.event) = possibleResponses(b.event)

=============================================================================
